---- MODULE Spec2Model ----
(***************************************************************************)
(* Model of the cybersecurity news scrapers of Scraper/scraper.py: the     *)
(* BaseScraper helpers, the per-site scrape controllers and the run        *)
(* orchestrator scrape_selected_sites.                                     *)
(*                                                                         *)
(* Three specifications share the module:                                  *)
(*   SpecHelpers  the BaseScraper helpers applied to bounded inputs        *)
(*   SpecScrape   one run of one site controller's scrape()                *)
(*   SpecRun      scrape_selected_sites over a list of selected sites      *)
(***************************************************************************)
EXTENDS Integers, Sequences, FiniteSets, TLC

VARIABLES
    \* SpecHelpers: the helper called with its arguments, and its outcome
    call, ret,
    \* SpecRun: the selected configurations, the position of the for loop of
    \* scrape_selected_sites, its set all_articles, its list errors, and its
    \* control state; returned is the set of keys of the lists the sites handed
    \* back, merged the set of articles dropped for an equal one already held
    configs, site_idx, run_articles, errors, run_pc, returned, merged,
    \* SpecRun, the log of the run: the names of the sites whose scrape was
    \* begun, the sites whose scrape ended with how it ended, the arguments of
    \* the calls of save_results, and how often main printed 'No articles to
    \* save'
    started, ended, saved, reported,
    \* SpecScrape: the controller run, the control state of its scrape(), the
    \* category (listing) and listing page it is at, the article elements of
    \* the page still to process, the number of articles the page added, the
    \* list all_articles of the listing loop, the list scrape() returns, the
    \* flag stop_scraping and the exception raised, if any
    site, pc, category, page_number, pending, page_articles, all_articles, result,
    stop_scraping, exc,
    \* SpecScrape, the log of the run: listing pages requested, calls of
    \* extract_article_details, outcome of the last listing request, the
    \* element last processed, and if an element failed validation
    fetched, extracted, last_fetch, last_elem, stale,
    \* SpecDates: the date function called with its arguments, and its outcome
    date_call, date_ret,
    \* SpecPaging: the controller run and the control state of its scrape();
    \* the site's listing (what extract_article_details makes of each of its
    \* elements, newest first), how many elements one page or one 'load more'
    \* shows, and its featured article; the list all_articles, the counter of
    \* triggers (load_more_count, load_more_clicks, page_count, next_count),
    \* how often the listing was expanded or advanced since its last reload,
    \* the set scraped_urls, and the list returned
    pg_site, pg_pc, listing, page_size, featured_tag, pg_articles, load_more_count,
    expanded, scraped_urls, pg_result,
    \* SpecPaging, the log of the run: the number of the outer-loop iteration,
    \* the listing elements handed to extract_article_details in order, and
    \* the largest number of elements the listing showed when it was parsed
    iteration, processed, loaded,
    \* SpecTools: the stand-alone function called with its arguments, and its
    \* outcome
    tool_call, tool_ret

helperVars == <<call, ret>>
dateVars == <<date_call, date_ret>>
runVars == <<configs, site_idx, run_articles, errors, run_pc, returned, merged,
             started, ended, saved, reported>>
scrapeVars == <<site, pc, category, page_number, pending, page_articles, all_articles,
                result, stop_scraping, exc, fetched, extracted, last_fetch, last_elem, stale>>
pagingVars == <<pg_site, pg_pc, listing, page_size, featured_tag, pg_articles,
                load_more_count, expanded, scraped_urls, pg_result, iteration,
                processed, loaded>>
toolVars == <<tool_call, tool_ret>>
vars == <<helperVars, runVars, scrapeVars, dateVars, pagingVars, toolVars>>

(***************************************************************************)
(* Python values.  Every value is a record of one shape, so that values of *)
(* different Python types can be compared.                                 *)
(***************************************************************************)
None == [t |-> "None", s |-> "", n |-> 0]
Str(x) == [t |-> "str", s |-> x, n |-> 0]
Date(d) == [t |-> "date", s |-> "", n |-> d]

\* Python truthiness: None and '' are falsy, a date is always truthy.
Truthy(v) == CASE v.t = "None" -> FALSE
               [] v.t = "str" -> v.s # ""
               [] OTHER -> TRUE

\* The outcome of a call: a returned value, or a raised exception.
Ret(v) == [exc |-> "", val |-> v]
Raise(e) == [exc |-> e, val |-> None]

(***************************************************************************)
(* Bounds of the inputs.                                                   *)
(***************************************************************************)
MaxParagraphs == 2
MaxTextLen == 2
MaxSites == 2
MaxReturned == 2
MaxCategories == 2
MaxFetches == 3
MaxPerPage == 2
MaxElems == 2
MaxFeatured == 1

(***************************************************************************)
(* BaseScraper.fetch_page_content                                          *)
(***************************************************************************)
\* What the network does with a GET: a transport error (connection error,
\* timeout, invalid URL), which requests / cloudscraper raise, or a response.
Responses ==
    {[err |-> TRUE, status |-> 0, text |-> ""]}
    \cup {[err |-> FALSE, status |-> st, text |-> tx] :
            st \in {200, 404}, tx \in {"<html>", ""}}

\* requests.get(url, headers=headers) and scraper.get(url)
http_get(net) == IF net.err THEN Raise("RequestException") ELSE Ret(net)

fetch_page_content(use_cloudscraper, net) ==
    LET response == IF use_cloudscraper THEN http_get(net) ELSE http_get(net)
    IN  IF response.exc # "" THEN Raise(response.exc)
        ELSE IF response.val.status = 200 THEN Ret(Str(response.val.text))
        ELSE Ret(None)

(***************************************************************************)
(* BeautifulSoup nodes.  A tag records what the helper finds in it: if the *)
(* tag itself is None, if select_one(selector) matches an element, and the *)
(* attributes, href value and stripped text of the element looked at.      *)
(***************************************************************************)
AttrNames == {"href", "src", "data-src", "data-cfsrc", "data-srcset"}
Hrefs == {"b", "/c", "../e", "https://y.com/d", ""}
BaseUrls == {"https://x.com/a/", "https://x.com/a", ""}

MkTag(isNone, found, attrs, href, text) ==
    [isNone |-> isNone, found |-> found, attrs |-> attrs, href |-> href, text |-> text]

NoneTag == MkTag(TRUE, FALSE, {}, "", "")

\* tag.select_one(selector): AttributeError on None
select_one(tag, selector) ==
    IF tag.isNone THEN Raise("AttributeError")
    ELSE IF tag.found THEN Ret(Str("element")) ELSE Ret(None)

\* urllib.parse.urljoin on the bounded URLs of the model
HasScheme(url) == url \in {"https://y.com/d", "https://x.com/a/", "https://x.com/a"}
UrlOrigin(base) == "https://x.com"
UrlDir(base) == IF base = "https://x.com/a/" THEN "https://x.com/a/" ELSE "https://x.com/"
urljoin_concat(base, url) == base \o url

\* "/c" is resolved against the origin, "../e" against the parent of the
\* base's directory (the root, for both bases), "b" against the directory.
urljoin(base, url) ==
    IF base = "" THEN url
    ELSE IF url = "" THEN base
    ELSE IF HasScheme(url) THEN url
    ELSE IF url = "/c" THEN UrlOrigin(base) \o url
    ELSE IF url = "../e" THEN UrlOrigin(base) \o "/e"
    ELSE UrlDir(base) \o url

extract_text(tag, selector, default) ==
    LET element == select_one(tag, selector)
    IN  IF element.exc # "" THEN Ret(default)
        ELSE IF Truthy(element.val) THEN Ret(Str(tag.text)) ELSE Ret(default)

extract_link(tag, selector, base_url, default) ==
    LET sel == IF selector # "" THEN select_one(tag, selector)
               ELSE IF tag.isNone THEN Ret(None) ELSE Ret(Str("element"))
    IN  IF sel.exc # "" THEN sel
        ELSE IF sel.val.t # "None" /\ "href" \in tag.attrs
             THEN Ret(Str(urljoin(base_url, tag.href)))
        ELSE Ret(default)

extract_image_try_srcset_first(tag, selector, attribute, default) ==
    LET element == select_one(tag, selector)
    IN  IF element.exc # "" THEN element
        ELSE IF Truthy(element.val) THEN
            IF attribute # "src" /\ attribute \in tag.attrs THEN Ret(Str(attribute))
            ELSE IF "src" \in tag.attrs THEN Ret(Str("src"))
            ELSE IF "data-srcset" \in tag.attrs THEN Ret(Str("data-srcset"))
            ELSE IF "data-cfsrc" \in tag.attrs THEN Ret(Str("data-cfsrc"))
            ELSE Raise("UnboundLocalError")
        ELSE Ret(default)

\* The body of extract_image's try block; element[a] is modelled by the name
\* of the attribute read.  When the element has none of the attributes the
\* local `image` is unbound at `return image`.
extract_image_try(tag, selector, attribute, default) ==
    LET element == select_one(tag, selector)
    IN  IF element.exc # "" THEN element
        ELSE IF Truthy(element.val) THEN
            IF attribute # "src" /\ attribute \in tag.attrs THEN Ret(Str(attribute))
            ELSE IF "src" \in tag.attrs THEN Ret(Str("src"))
            ELSE IF "data-cfsrc" \in tag.attrs THEN Ret(Str("data-cfsrc"))
            ELSE IF "data-srcset" \in tag.attrs THEN Ret(Str("data-srcset"))
            ELSE Raise("UnboundLocalError")
        ELSE Ret(default)

extract_image_no_except(tag, selector, attribute, default) ==
    extract_image_try(tag, selector, attribute, default)

extract_image(tag, selector, attribute, default) ==
    LET r == extract_image_try(tag, selector, attribute, default)
    IN  IF r.exc # "" THEN Ret(default) ELSE r

(***************************************************************************)
(* BaseScraper.extract_content.  A paragraph is the sequence of characters *)
(* of p.get_text(strip=True) of one p/h2/h3/li element, in document order. *)
(***************************************************************************)
\* "<U+00E9>" stands for a character outside the printable ASCII range.
Chars == {"a", ",", "|", "<U+00E9>"}
Printable(c) == c \in {"a", ",", "|", " "}

RECURSIVE Flatten(_)
Flatten(cs) == IF cs = <<>> THEN "" ELSE Head(cs) \o Flatten(Tail(cs))

replace_nothing(text) == text

\* text.replace('\n', ' ').replace(',', ' ')
replace_newline_comma(text) ==
    [i \in 1..Len(text) |-> IF text[i] \in {"\n", ","} THEN " " ELSE text[i]]

RECURSIVE processed_paragraphs(_)
processed_paragraphs(paragraphs) ==
    IF paragraphs = <<>> THEN <<>>
    ELSE LET text == Head(paragraphs)
         IN  IF text # <<>>
             THEN <<replace_newline_comma(text)>> \o processed_paragraphs(Tail(paragraphs))
             ELSE processed_paragraphs(Tail(paragraphs))

RECURSIVE join(_)
join(ps) ==
    IF ps = <<>> THEN <<>>
    ELSE IF Len(ps) = 1 THEN Head(ps)
    ELSE Head(ps) \o <<" ", "|", "|", " ">> \o join(Tail(ps))

\* re.sub(r'[^\x20-\x7E]+', '', text)
RECURSIVE re_sub_nonprintable(_)
re_sub_nonprintable(text) ==
    IF text = <<>> THEN <<>>
    ELSE IF Printable(Head(text)) THEN <<Head(text)>> \o re_sub_nonprintable(Tail(text))
    ELSE re_sub_nonprintable(Tail(text))

extract_content_chars(soup, paragraphs) ==
    IF soup.found THEN re_sub_nonprintable(join(processed_paragraphs(paragraphs)))
    ELSE <<>>

extract_content(soup, content_selector, paragraphs) ==
    LET content_div == select_one(soup, content_selector)
    IN  IF content_div.exc # "" THEN content_div
        ELSE Ret(Str(Flatten(extract_content_chars(soup, paragraphs))))

(***************************************************************************)
(* Article: identity is (title, url).                                      *)
(***************************************************************************)
Article(title, url, date, tags, source, description, image, content) ==
    [title |-> title, url |-> url, date |-> date, tags |-> tags, source |-> source,
     description |-> description, image |-> image, content |-> content]

\* Article.__eq__ where both operands are Articles
Article_eq_any_field(a, b) == a = b

Article_eq(a, b) == a.title = b.title /\ a.url = b.url

\* Article.__hash__: the tuple hashed
Article_hash(a) == <<a.title, a.url>>

\* A Python set of Articles: add keeps the element already present that
\* equals the new one (same hash, __eq__ true).
set_add(S, a) == IF \E b \in S : Article_hash(b) = Article_hash(a) /\ Article_eq(b, a)
                 THEN S ELSE S \cup {a}

\* set(list)
RECURSIVE set_of_list(_, _)
set_of_list(S, list) ==
    IF list = <<>> THEN S ELSE set_of_list(set_add(S, Head(list)), Tail(list))

set_update_replace(S, T) == T

\* S.update(T), T a Python set
RECURSIVE set_update(_, _)
set_update(S, T) ==
    IF T = {} THEN S
    ELSE LET a == CHOOSE x \in T : TRUE IN set_update(set_add(S, a), T \ {a})

(***************************************************************************)
(* scrape_selected_sites                                                   *)
(***************************************************************************)
SiteNames == {"CSOOnline", "HackerNews"}
ArticleKeys == {<<"t1", "u1">>, <<"t1", "u2">>, <<"t2", "u1">>}

\* What a site's scrape() can hand back to the orchestrator.
ReturnedArticles(name) ==
    {Article(k[1], k[2], Date(d), None, name, None, None, None) :
        k \in ArticleKeys, d \in {1, 2}}
ReturnedLists(name) == UNION {[1..n -> ReturnedArticles(name)] : n \in 0..MaxReturned}
ScrapeOutcomes(name) ==
    {[exc |-> "Exception", list |-> <<>>]}
    \cup {[exc |-> "", list |-> l] : l \in ReturnedLists(name)}

KeysOf(S) == {Article_hash(a) : a \in S}
ListKeys(list) == {Article_hash(list[i]) : i \in 1..Len(list)}

RunIdle ==
    /\ configs = <<>>
    /\ site_idx = 0
    /\ run_articles = {}
    /\ errors = <<>>
    /\ run_pc = "idle"
    /\ returned = {}
    /\ merged = {}
    /\ started = <<>>
    /\ ended = <<>>
    /\ saved = <<>>
    /\ reported = 0

RunInit ==
    /\ configs \in UNION {[1..n -> SiteNames] : n \in 1..MaxSites}
    /\ site_idx = 1
    /\ run_articles = {}
    /\ errors = <<>>
    /\ run_pc = "create_webdriver"
    /\ returned = {}
    /\ merged = {}
    /\ started = <<>>
    /\ ended = <<>>
    /\ saved = <<>>
    /\ reported = 0

\* driver = BaseScraper.create_webdriver(None): the one failure that is fatal
create_webdriver ==
    /\ run_pc = "create_webdriver"
    /\ \E ok \in BOOLEAN : run_pc' = IF ok THEN "loop" ELSE "raised"
    /\ UNCHANGED <<configs, site_idx, run_articles, errors, returned, merged>>
    /\ UNCHANGED <<started, ended, saved, reported>>
    /\ UNCHANGED <<helperVars, scrapeVars, dateVars, pagingVars, toolVars>>

\* The for loop has a configuration left / is exhausted
loop_exhausted_early(idx, cfgs) == idx >= Len(cfgs)

loop_exhausted(idx, cfgs) == idx > Len(cfgs)

record_error_nothing(errs, name, e) == errs

\* errors.append((config['name'], str(e)))
record_error(errs, name, e) == Append(errs, <<name, e>>)

\* The for loop takes the next configuration and enters the try block: the
\* scraper is constructed and its scrape() called.
next_config ==
    /\ run_pc = "loop"
    /\ ~loop_exhausted(site_idx, configs)
    /\ run_pc' = "scraping"
    /\ started' = Append(started, configs[site_idx])
    /\ UNCHANGED <<configs, site_idx, run_articles, errors, returned, merged>>
    /\ UNCHANGED <<ended, saved, reported>>
    /\ UNCHANGED <<helperVars, scrapeVars, dateVars, pagingVars, toolVars>>

\* The rest of the iteration: construction or scrape() has returned a list or
\* raised; the list updates the set, an exception is recorded in errors, and
\* the loop continues either way.
scrape_site ==
    /\ run_pc = "scraping"
    /\ \E r \in ScrapeOutcomes(configs[site_idx]) :
        /\ IF r.exc # ""
           THEN /\ errors' = record_error(errors, configs[site_idx], r.exc)
                /\ UNCHANGED <<run_articles, returned, merged>>
           ELSE LET articles == set_of_list({}, r.list)
                IN  /\ run_articles' = set_update(run_articles, articles)
                    /\ returned' = returned \cup ListKeys(r.list)
                    /\ merged' = merged \cup
                          {r.list[i] : i \in {k \in 1..Len(r.list) :
                              \E b \in run_articles \cup {r.list[j] : j \in 1..(k-1)} :
                                  Article_eq(b, r.list[k]) /\ b # r.list[k]}}
                    /\ UNCHANGED errors
        /\ ended' = Append(ended, [name |-> configs[site_idx], raised |-> r.exc # ""])
    /\ site_idx' = site_idx + 1
    /\ run_pc' = "loop"
    /\ UNCHANGED <<configs, started, saved, reported>>
    /\ UNCHANGED <<helperVars, scrapeVars, dateVars, pagingVars, toolVars>>

\* After the loop: report the errors, driver.quit(), return all_articles
return_all_articles ==
    /\ run_pc = "loop"
    /\ loop_exhausted(site_idx, configs)
    /\ run_pc' = "returned"
    /\ UNCHANGED <<configs, site_idx, run_articles, errors, returned, merged>>
    /\ UNCHANGED <<started, ended, saved, reported>>
    /\ UNCHANGED <<helperVars, scrapeVars, dateVars, pagingVars, toolVars>>

bool_set_always(S) == TRUE

\* The truth value of a Python set: non-empty
bool_set(S) == S # {}

\* main, all_articles truthy: save_results(all_articles, OUTPUT_FILE), which
\* writes the spreadsheet or raises an I/O error
main_save_results ==
    /\ run_pc = "returned"
    /\ bool_set(run_articles)
    /\ saved' = Append(saved, run_articles)
    /\ \E ok \in BOOLEAN : run_pc' = IF ok THEN "done" ELSE "save_raised"
    /\ UNCHANGED <<configs, site_idx, run_articles, errors, returned, merged>>
    /\ UNCHANGED <<started, ended, reported>>
    /\ UNCHANGED <<helperVars, scrapeVars, dateVars, pagingVars, toolVars>>

\* main, all_articles empty: print("No articles to save. Exiting...")
main_no_articles ==
    /\ run_pc = "returned"
    /\ ~bool_set(run_articles)
    /\ reported' = reported + 1
    /\ run_pc' = "done"
    /\ UNCHANGED <<configs, site_idx, run_articles, errors, returned, merged>>
    /\ UNCHANGED <<started, ended, saved>>
    /\ UNCHANGED <<helperVars, scrapeVars, dateVars, pagingVars, toolVars>>

RunNext ==
    \/ create_webdriver
    \/ next_config
    \/ scrape_site
    \/ return_all_articles
    \/ main_save_results
    \/ main_no_articles


(***************************************************************************)
(* Date normaliser.  Dates are day numbers; the text "day<d>" is the date  *)
(* d written in the format the site's controller expects, "garbage" is any *)
(* other text.                                                             *)
(***************************************************************************)
MIN_DATE == 1
DateTexts == {"day0", "day1", "day2"}
DayOf(text) == CASE text = "day0" -> 0 [] text = "day1" -> 1 [] OTHER -> 2

\* datetime.strptime(date_str, date_format).date()
strptime(date_str) ==
    IF date_str.t # "str" THEN Raise("TypeError")
    ELSE IF date_str.s \in DateTexts THEN Ret(Date(DayOf(date_str.s)))
    ELSE Raise("ValueError")

parse_date(date_str) ==
    LET r == strptime(date_str)
    IN  IF r.exc = "ValueError" THEN Ret(Str("No Date")) ELSE r

is_article_valid_no_cutoff(article_date) ==
    article_date.t = "str" \/ Truthy(article_date)

is_article_valid_strict(article_date) ==
    article_date.t = "str" \/ (Truthy(article_date) /\ article_date.n > MIN_DATE)

is_article_valid(article_date) ==
    article_date.t = "str" \/ (Truthy(article_date) /\ article_date.n >= MIN_DATE)

(***************************************************************************)
(* An article element of a listing page, as the controller sees it:        *)
(*   date    the text of the date element the controller reads (on the     *)
(*           listing, or on the detail page for the controllers that take  *)
(*           the date from there), "absent" when that element is missing   *)
(*   detail  what the request of the detail page gives: "ok" (200),        *)
(*           "non200", or "error" (transport error)                        *)
(*   kind    "special" for an element the controller passes over: tagged   *)
(*           'Deals' (BleepingComputer), of unknown layout (DarkReading),  *)
(*           the empty featured placeholder (Tenable)                      *)
(*   href    the href of the element's link, "" when the element has no    *)
(*           link with an href                                             *)
(***************************************************************************)
MkElem(date, detail, kind, href) ==
    [date |-> date, detail |-> detail, kind |-> kind, href |-> href]
NoElem == MkElem("", "", "", "")

\* self.base_url, the url column of the site's configuration
SiteBaseUrl == "https://x.com/a/"

LinkTag(elem) ==
    MkTag(FALSE, elem.href # "", IF elem.href # "" THEN {"href"} ELSE {}, elem.href, "")

\* link = self.extract_link(article, <selector>, base_url=self.base_url[, default])
article_link(elem, default) ==
    extract_link(LinkTag(elem), "a", SiteBaseUrl, default).val.s

DateTag(elem) == MkTag(FALSE, elem.date # "absent", {}, "", elem.date)

\* The request of the detail page.  A link that is no URL ('' or 'No link',
\* the default of extract_link) makes requests / cloudscraper raise
\* MissingSchema, a transport error.
DetailNet(elem) ==
    CASE elem.href = "" -> [err |-> TRUE, status |-> 0, text |-> ""]
      [] elem.detail = "ok" -> [err |-> FALSE, status |-> 200, text |-> "<html>"]
      [] elem.detail = "non200" -> [err |-> FALSE, status |-> 404, text |-> ""]
      [] OTHER -> [err |-> TRUE, status |-> 0, text |-> ""]

\* The parsed detail page: its content block holds one paragraph, its image
\* element a src.
DetailSoup == MkTag(FALSE, TRUE, {"src"}, "", "")
DetailParagraphs == <<(<<"a">>)>>
ListingImage == MkTag(FALSE, TRUE, {"src"}, "", "")

\* What extract_article_details gives: an Article, None, the marker "pass",
\* or an exception.
NoArticle == Article("", "", None, None, "", None, None, None)
RArticle(a) == [r |-> "article", a |-> a, exc |-> ""]
RNone == [r |-> "None", a |-> NoArticle, exc |-> ""]
RPass == [r |-> "pass", a |-> NoArticle, exc |-> ""]
RRaise(e) == [r |-> "raise", a |-> NoArticle, exc |-> e]

\* extract_article_content of the controllers that return the content alone:
\* None when the fetch fails, else extract_content of the page
content_or_None(elem, use_cloudscraper) ==
    LET page_content == fetch_page_content(use_cloudscraper, DetailNet(elem))
    IN  IF page_content.exc # "" THEN page_content
        ELSE IF ~Truthy(page_content.val) THEN Ret(None)
        ELSE extract_content(DetailSoup, "sel", DetailParagraphs)

\* extract_article_details of the controllers that read the date on the
\* listing, validate it, and then fetch the detail page.  image_from_detail:
\* extract_article_content returns (content, image), (None, None) on failure.
listing_date_details(elem, date_default, use_cloudscraper, image_from_detail, source) ==
    LET date_str == extract_text(DateTag(elem), "sel", date_default).val
        date == parse_date(date_str)
        content == content_or_None(elem, use_cloudscraper)
        image == IF image_from_detail /\ ~Truthy(content.val) THEN None
                 ELSE extract_image(ListingImage, "img", "src", Str("")).val
    IN  IF date.exc # "" THEN RRaise(date.exc)
        ELSE IF ~is_article_valid(date.val) THEN RNone
        ELSE IF content.exc # "" THEN RRaise(content.exc)
        ELSE RArticle(Article("title", article_link(elem, Str("")),
                              date.val, None, source, None, image,
                              content.val))

CSOOnline_extract_article_details(elem) ==
    listing_date_details(elem, Str(""), FALSE, TRUE, "CSOOnline")

HackerNews_extract_article_details(elem) ==
    listing_date_details(elem, Str("No Date"), TRUE, TRUE, "HackerNews")

Incibe_extract_article_details(elem) ==
    listing_date_details(elem, Str(""), FALSE, TRUE, "Incibe")

CISA_extract_article_details(elem) ==
    listing_date_details(elem, Str(""), TRUE, FALSE, "CISA")

InfoSecurityMagazine_extract_article_details(elem) ==
    listing_date_details(elem, None, FALSE, FALSE, "InfoSecurity Magazine")

\* The detail page is fetched only if article_url != ''; else content = None
ESecurityPlanet_extract_article_details(elem) ==
    LET article_url == article_link(elem, Str(""))
        article_date == parse_date(extract_text(DateTag(elem), "time", Str("")).val)
        content == IF article_url # "" THEN content_or_None(elem, FALSE) ELSE Ret(None)
    IN  IF ~is_article_valid(article_date.val) THEN RNone
        ELSE IF content.exc # "" THEN RRaise(content.exc)
        ELSE RArticle(Article("title", article_url, article_date.val, None,
                              "ESecurityPlanet", None, None, content.val))

Intel471_extract_article_details(elem) ==
    listing_date_details(elem, Str(""), FALSE, FALSE, "Intel471")

BleepingComputer_extract_article_details_keeps_deals(elem) ==
    LET r == listing_date_details(elem, Str("No Date"), TRUE, TRUE, "BleepingComputer")
        tags == Str(IF elem.kind = "special" THEN "Deals" ELSE "Security")
    IN  IF r.r = "article" THEN RArticle([r.a EXCEPT !.tags = tags]) ELSE r

\* 'Deals' is tested after the date validation and before the detail fetch;
\* tags is the text of the element's category link
BleepingComputer_extract_article_details(elem) ==
    LET r == listing_date_details(elem, Str("No Date"), TRUE, TRUE, "BleepingComputer")
        date == parse_date(extract_text(DateTag(elem), "sel", Str("No Date")).val)
        tags == Str(IF elem.kind = "special" THEN "Deals" ELSE "Security")
    IN  IF ~is_article_valid(date.val) THEN RNone
        ELSE IF tags = Str("Deals") THEN RPass
        ELSE IF r.r = "article" THEN RArticle([r.a EXCEPT !.tags = tags])
        ELSE r

\* An element of none of the three known layouts gives "pass" before any date
\* is read
DarkReading_extract_article_details(elem) ==
    IF elem.kind = "special" THEN RPass
    ELSE listing_date_details(elem, Str("No Date"), TRUE, FALSE, "Dark Reading")

\* scrape() passes over the empty featured placeholder of the base page
Tenable_extract_article_details(elem, page) ==
    IF elem.kind = "special" /\ page = 1 THEN RPass
    ELSE listing_date_details(elem, Str("No Date"), FALSE, FALSE, "Tenable")

\* extract_article_date returns None (no return statement reached) when the
\* date container or its second span is missing
SecurityAffairs_extract_article_date(elem) ==
    IF elem.date # "absent" THEN parse_date(Str(elem.date)) ELSE Ret(None)

SecurityAffairs_extract_article_details(elem) ==
    LET article_date == SecurityAffairs_extract_article_date(elem)
        content == content_or_None(elem, FALSE)
    IN  IF ~is_article_valid(article_date.val) THEN RNone
        ELSE IF content.exc # "" THEN RRaise(content.exc)
        ELSE RArticle(Article("title", article_link(elem, Str("")),
                              article_date.val, None, "Security Affairs",
                              None, Str("src"), content.val))

\* re.search(...).group() raises AttributeError when the text holds no date
TripWire_extract_article_date(elem) ==
    IF elem.date # "absent"
    THEN IF elem.date = "garbage" THEN Raise("AttributeError")
         ELSE parse_date(Str(elem.date))
    ELSE Ret(Str("No Date"))

TripWire_extract_article_details(elem) ==
    LET article_date == TripWire_extract_article_date(elem)
        content == content_or_None(elem, FALSE)
    IN  IF article_date.exc # "" THEN RRaise(article_date.exc)
        ELSE IF ~is_article_valid(article_date.val) THEN RNone
        ELSE IF content.exc # "" THEN RRaise(content.exc)
        ELSE RArticle(Article("title", article_link(elem, Str("")),
                              article_date.val, None, "Tripwire",
                              None, Str("src"), content.val))

\* date_tag.get_text on a missing date element raises AttributeError
SCADAfence_extract_article_details(elem) ==
    LET article_date == parse_date(Str(elem.date))
        content == content_or_None(elem, FALSE)
    IN  IF elem.date = "absent" THEN RRaise("AttributeError")
        ELSE IF ~is_article_valid(article_date.val) THEN RNone
        ELSE IF content.exc # "" THEN RRaise(content.exc)
        ELSE RArticle(Article("title", article_link(elem, Str("")),
                              article_date.val, None, "SCADAfence",
                              None, Str("src"), content.val))

\* The detail page is loaded with the driver, which gives a page for any
\* URL; driver.get of a link that is no URL raises.
SANS_extract_article_details(elem) ==
    LET date == parse_date(extract_text(DateTag(elem), "div.date", Str("No date")).val)
        content == extract_content(DetailSoup, "div.blog-content", DetailParagraphs)
    IN  IF ~is_article_valid(date.val) THEN RNone
        ELSE IF article_link(elem, Str("")) = "" THEN RRaise("WebDriverException")
        ELSE RArticle(Article("title", article_link(elem, Str("")),
                              date.val, None,
                              "SANS", None, Str("src"), content.val))

\* The date text is a relative phrase or a "%B %d, %Y" date; any other text
\* makes strptime raise ValueError, which is caught and gives None.
SecurityWeek_article_date(elem) ==
    LET date_text == extract_text(DateTag(elem), "span", Str("No date")).val
    IN  strptime(date_text)

\* (None, None) on a failed fetch, (description, content, image) otherwise
SecurityWeek_extract_article_content(elem) ==
    LET page_content == fetch_page_content(TRUE, DetailNet(elem))
    IN  IF page_content.exc # "" THEN [exc |-> page_content.exc, len |-> 0, content |-> None]
        ELSE IF ~Truthy(page_content.val) THEN [exc |-> "", len |-> 2, content |-> None]
        ELSE [exc |-> "", len |-> 3,
              content |-> extract_content(DetailSoup, "div.zox-post-body", DetailParagraphs).val]

SecurityWeek_extract_article_details(elem) ==
    LET article_date == SecurityWeek_article_date(elem)
        detail == SecurityWeek_extract_article_content(elem)
    IN  IF article_date.exc # "" THEN RNone
        ELSE IF ~is_article_valid(article_date.val) THEN RNone
        ELSE IF detail.exc # "" THEN RRaise(detail.exc)
        ELSE IF detail.len # 3 THEN RRaise("ValueError")
        ELSE RArticle(Article("title", article_link(elem, Str("No link")), article_date.val,
                              None, "SecurityWeek",
                              None, Str("src"), detail.content))

\* extract_text(..., default=None): re.sub on None raises TypeError, which the
\* except ValueError does not catch.  A wait that times out gives the content
\* "No content available".
TheRecord_extract_article_details(elem) ==
    LET date_text == extract_text(DateTag(elem), "span", None).val
        article_date == parse_date(date_text)
        content == IF elem.detail = "ok"
                   THEN extract_content(DetailSoup, "span", DetailParagraphs).val
                   ELSE Str("No content available")
    IN  IF date_text.t # "str" THEN RRaise("TypeError")
        ELSE IF ~Truthy(article_date.val) \/ ~is_article_valid(article_date.val) THEN RNone
        ELSE IF article_link(elem, Str("")) = "" THEN RRaise("WebDriverException")
        ELSE RArticle(Article("title", article_link(elem, Str("")),
                              article_date.val,
                              None, "TheRecord", None, Str("src"), content))

\* The controllers that read the date on the detail page: (date, content,
\* image), and (None, None, None) when the fetch fails.
detail_date_content(elem, date_default) ==
    LET page_content == fetch_page_content(FALSE, DetailNet(elem))
        date_str == extract_text(DateTag(elem), "sel", date_default).val
    IN  IF page_content.exc # "" THEN [exc |-> page_content.exc, date |-> None, content |-> None]
        ELSE IF ~Truthy(page_content.val) THEN [exc |-> "", date |-> None, content |-> None]
        ELSE [exc |-> "", date |-> parse_date(date_str).val,
              content |-> extract_content(DetailSoup, "sel", DetailParagraphs).val]

Nozomi_extract_article_content(elem) == detail_date_content(elem, Str(""))

Nozomi_extract_article_details(elem) ==
    LET d == Nozomi_extract_article_content(elem)
    IN  IF d.exc # "" THEN RRaise(d.exc)
        ELSE IF ~is_article_valid(d.date) THEN RNone
        ELSE RArticle(Article("title", article_link(elem, Str("")),
                              d.date, None, "Nozomi", None,
                              IF Truthy(d.content) THEN Str("src") ELSE None, d.content))

\* extract_article_date gives 'No Date' when the page has no date element
CyberSecurityDive_extract_article_content(elem) == detail_date_content(elem, Str("No Date"))

CyberSecurityDive_extract_article_details(elem) ==
    LET d == CyberSecurityDive_extract_article_content(elem)
    IN  IF d.exc # "" THEN RRaise(d.exc)
        ELSE IF ~is_article_valid(d.date) THEN RNone
        ELSE RArticle(Article("title", article_link(elem, Str("")),
                              d.date, None, "CyberSecurity Dive", None,
                              IF Truthy(d.content) THEN Str("src") ELSE None, d.content))

\* The hero article and the top stories: no date validation
CyberSecurityDive_extract_featured_article_details(elem) ==
    LET d == CyberSecurityDive_extract_article_content(elem)
    IN  IF d.exc # "" THEN RRaise(d.exc)
        ELSE RArticle(Article("title", article_link(elem, Str("")),
                              d.date, None, "CyberSecurity Dive", None,
                              IF Truthy(d.content) THEN Str("src") ELSE None, d.content))

\* extract_article_content returns a bare None when the fetch fails, which the
\* caller unpacks into three names: TypeError.  With no published_time meta
\* tag parsed_date is unbound at the return: UnboundLocalError.
Sectrio_extract_article_details(elem) ==
    LET page_content == fetch_page_content(FALSE, DetailNet(elem))
        parsed_date == parse_date(Str(elem.date))
    IN  IF page_content.exc # "" THEN RRaise(page_content.exc)
        ELSE IF ~Truthy(page_content.val) THEN RRaise("TypeError")
        ELSE IF elem.date = "absent" THEN RRaise("UnboundLocalError")
        ELSE IF ~is_article_valid(parsed_date.val) THEN RNone
        ELSE RArticle(Article("title", article_link(elem, Str("")),
                              parsed_date.val, None, "Sectrio", None,
                              Str("src"),
                              extract_content(DetailSoup, "div", DetailParagraphs).val))

extract_article_details(s, elem, page) ==
    CASE s = "CSOOnline" -> CSOOnline_extract_article_details(elem)
      [] s = "HackerNews" -> HackerNews_extract_article_details(elem)
      [] s = "Incibe" -> Incibe_extract_article_details(elem)
      [] s = "SecurityWeek" -> SecurityWeek_extract_article_details(elem)
      [] s = "CISA" -> CISA_extract_article_details(elem)
      [] s = "TheRecord" -> TheRecord_extract_article_details(elem)
      [] s = "BleepingComputer" -> BleepingComputer_extract_article_details(elem)
      [] s = "InfoSecurityMagazine" -> InfoSecurityMagazine_extract_article_details(elem)
      [] s = "SecurityAffairs" -> SecurityAffairs_extract_article_details(elem)
      [] s = "TripWire" -> TripWire_extract_article_details(elem)
      [] s = "Nozomi" -> Nozomi_extract_article_details(elem)
      [] s = "CyberSecurityDive" -> CyberSecurityDive_extract_article_details(elem)
      [] s = "SCADAfence" -> SCADAfence_extract_article_details(elem)
      [] s = "ESecurityPlanet" -> ESecurityPlanet_extract_article_details(elem)
      [] s = "SANS" -> SANS_extract_article_details(elem)
      [] s = "DarkReading" -> DarkReading_extract_article_details(elem)
      [] s = "Tenable" -> Tenable_extract_article_details(elem, page)
      [] s = "Sectrio" -> Sectrio_extract_article_details(elem)
      [] OTHER -> Intel471_extract_article_details(elem)

(***************************************************************************)
(* The listing loops of the controllers (scrape / scrape_category /        *)
(* scrape_page).                                                           *)
(***************************************************************************)
Sites ==
    {"CSOOnline", "HackerNews", "Incibe", "SecurityWeek", "CISA", "TheRecord",
     "BleepingComputer", "InfoSecurityMagazine", "SecurityAffairs", "TripWire",
     "Nozomi", "CyberSecurityDive", "SCADAfence", "ESecurityPlanet", "SANS",
     "DarkReading", "Tenable", "Sectrio", "Intel471"}

Min(a, b) == IF a < b THEN a ELSE b

\* len(categories): the listings scrape() goes through, one after the other
Categories(s) ==
    CASE s = "CSOOnline" -> 9
      [] s = "SecurityWeek" -> 2
      [] s = "ESecurityPlanet" -> 9
      [] OTHER -> 1

NumListings(s) == Min(Categories(s), MaxCategories)

\* The controllers that load the listing with the driver
DriverSites == {"TheRecord", "SANS"}

uses_cloudscraper(s) == s \in {"HackerNews", "SecurityWeek", "CISA", "BleepingComputer"}

ListingResponses(s) ==
    IF s \in DriverSites THEN {[err |-> FALSE, status |-> 200, text |-> "<html>"]}
    ELSE Responses

listing_page_content(s, net) ==
    IF s \in DriverSites THEN Ret(Str(net.text))
    ELSE fetch_page_content(uses_cloudscraper(s), net)

\* One listing page only: no loop around the fetch
Paginates(s) == s \notin {"Nozomi", "SCADAfence"}

\* "if not articles: break" (SANS: "if stop_scraping or not articles: break";
\* CISA: scrape_page returns [] and scrape breaks on it)
breaks_on_empty_listing(s) ==
    s \in {"CSOOnline", "SecurityWeek", "CISA", "BleepingComputer",
           "InfoSecurityMagazine", "SecurityAffairs", "TripWire",
           "CyberSecurityDive", "SANS", "DarkReading", "Sectrio"}

\* What the loop over the page's elements does with an element whose details
\* are None: "stop" (break / return), "skip" (go on with the next element),
\* "flag" (set stop_scraping and go on with the next element)
on_invalid_article(s) ==
    CASE s \in {"CISA", "SCADAfence"} -> "skip"
      [] s = "TheRecord" -> "flag"
      [] OTHER -> "stop"

\* Whether the page has a next-page link (HackerNews), whether the clicks on
\* the next-page button succeed (TheRecord); the other controllers build the
\* next URL from a counter.
NextLinks(s) == IF s \in {"HackerNews", "TheRecord"} THEN BOOLEAN ELSE {TRUE}

ElemDates == DateTexts \cup {"garbage", "absent"}
ElemDetails(s) ==
    CASE s = "SANS" -> {"ok"}
      [] s = "TheRecord" -> {"ok", "non200"}
      [] OTHER -> {"ok", "non200", "error"}
ElemHrefs == {"/c", ""}
ElemKinds(s) ==
    IF s \in {"BleepingComputer", "DarkReading", "Tenable"} THEN {"normal", "special"}
    ELSE {"normal"}
Elements(s) ==
    {MkElem(d, f, k, h) : d \in ElemDates, f \in ElemDetails(s), k \in ElemKinds(s),
                          h \in ElemHrefs}

\* The hero article and top stories of the page: CyberSecurityDive, page 1
FeaturedElements(s, page) ==
    IF s = "CyberSecurityDive" /\ page = 1
    THEN UNION {[1..n -> Elements(s)] : n \in 0..MaxFeatured}
    ELSE {<<>>}

RECURSIVE extract_featured_articles(_)
extract_featured_articles(featured) ==
    IF featured = <<>> THEN [exc |-> "", list |-> <<>>]
    ELSE LET first == CyberSecurityDive_extract_featured_article_details(Head(featured))
             rest == extract_featured_articles(Tail(featured))
         IN  IF first.exc # "" THEN [exc |-> first.exc, list |-> <<>>]
             ELSE IF rest.exc # "" THEN rest
             ELSE [exc |-> "", list |-> <<first.a>> \o rest.list]

\* list.extend
extend_nothing(list, items) == list

extend(list, items) == list \o items

\* The listing loop ends (break, return, or the while condition is false):
\* its articles join scrape()'s result, and scrape() goes to the next
\* category or returns.
end_listing ==
    /\ result' = extend(result, all_articles)
    /\ all_articles' = <<>>
    /\ page_number' = 0
    /\ pending' = 0
    /\ page_articles' = 0
    /\ stop_scraping' = FALSE
    /\ stale' = FALSE
    /\ exc' = exc
    /\ IF category < NumListings(site)
       THEN category' = category + 1 /\ pc' = "fetch"
       ELSE category' = category /\ pc' = "done"

\* An exception leaves scrape(): nothing is returned
raise_exception(e) ==
    /\ pc' = "raised"
    /\ exc' = e
    /\ UNCHANGED <<category, page_number, pending, page_articles, all_articles,
                   result, stop_scraping, stale>>

\* The loop over the page's elements goes on with the next element
next_article(articles, n_page, flag, seen_stale) ==
    /\ all_articles' = articles
    /\ page_articles' = n_page
    /\ stop_scraping' = flag
    /\ stale' = seen_stale
    /\ pending' = pending - 1
    /\ pc' = IF pending = 1 THEN "end_page" ELSE "articles"
    /\ UNCHANGED <<category, page_number, result, exc>>

\* TheRecord reads driver.page_source; the page was requested by
\* navigate_and_filter before the loop (first page) or at the end of the
\* previous iteration.
requests_listing == ~(site = "TheRecord" /\ page_number > 0)

fetch_listing_page ==
    /\ pc = "fetch"
    /\ requests_listing => fetched < MaxFetches
    /\ fetched' = IF requests_listing THEN fetched + 1 ELSE fetched
    /\ UNCHANGED <<site, extracted, last_elem>>
    /\ \E net \in ListingResponses(site), n \in 0..MaxPerPage :
         \E featured \in FeaturedElements(site, page_number + 1) :
           LET page_content == listing_page_content(site, net)
               featured_articles == extract_featured_articles(featured)
           IN  IF page_content.exc # ""
               THEN /\ n = 0 /\ featured = <<>>
                    /\ last_fetch' = "raised"
                    /\ raise_exception(page_content.exc)
               ELSE IF ~Truthy(page_content.val)
               THEN /\ n = 0 /\ featured = <<>>
                    /\ last_fetch' = "failed"
                    /\ end_listing
               ELSE IF n = 0
               THEN /\ featured = <<>>
                    /\ last_fetch' = "empty"
                    /\ IF breaks_on_empty_listing(site)
                       THEN end_listing
                       ELSE /\ page_number' = page_number + 1
                            /\ pending' = 0
                            /\ page_articles' = 0
                            /\ pc' = "end_page"
                            /\ UNCHANGED <<category, all_articles, result,
                                           stop_scraping, stale, exc>>
               ELSE /\ extracted + n <= MaxElems
                    /\ last_fetch' = "articles"
                    /\ IF featured_articles.exc # ""
                       THEN raise_exception(featured_articles.exc)
                       ELSE /\ all_articles' = extend(all_articles, featured_articles.list)
                            /\ page_number' = page_number + 1
                            /\ pending' = n
                            /\ page_articles' = 0
                            /\ pc' = "articles"
                            /\ UNCHANGED <<category, result, stop_scraping, stale, exc>>
    /\ UNCHANGED <<helperVars, runVars, dateVars, pagingVars, toolVars>>

process_article ==
    /\ pc = "articles"
    /\ extracted' = extracted + 1
    /\ UNCHANGED <<site, fetched, last_fetch>>
    /\ \E elem \in Elements(site) :
         LET article_details == extract_article_details(site, elem, page_number)
         IN  /\ last_elem' = elem
             /\ CASE article_details.r = "raise" -> raise_exception(article_details.exc)
                  [] article_details.r = "pass" ->
                       next_article(all_articles, page_articles, stop_scraping, stale)
                  [] article_details.r = "article" ->
                       next_article(Append(all_articles, article_details.a),
                                    page_articles + 1, stop_scraping, stale)
                  [] OTHER ->
                       CASE on_invalid_article(site) = "stop" -> end_listing
                         [] on_invalid_article(site) = "skip" ->
                              next_article(all_articles, page_articles, stop_scraping, TRUE)
                         [] OTHER ->
                              next_article(all_articles, page_articles, TRUE, TRUE)
    /\ UNCHANGED <<helperVars, runVars, dateVars, pagingVars, toolVars>>

\* After the last element of the page: the loop condition, the next URL.
\* TheRecord requests the listing again (navigate_and_filter) and clicks its
\* way to the next page before it looks at stop_scraping.
next_page ==
    /\ pc = "end_page"
    /\ site = "TheRecord" => fetched < MaxFetches
    /\ fetched' = IF site = "TheRecord" THEN fetched + 1 ELSE fetched
    /\ UNCHANGED <<site, extracted, last_fetch, last_elem>>
    /\ \E more \in NextLinks(site) :
         IF \/ ~Paginates(site)
            \/ (site = "CISA" /\ page_articles = 0)
            \/ stop_scraping
            \/ ~more
         THEN end_listing
         ELSE /\ pc' = "fetch"
              /\ UNCHANGED <<category, page_number, pending, page_articles,
                             all_articles, result, stop_scraping, stale, exc>>
    /\ UNCHANGED <<helperVars, runVars, dateVars, pagingVars, toolVars>>

ScrapeNext == fetch_listing_page \/ process_article \/ next_page

ScrapeIdle ==
    /\ site = ""
    /\ pc = "idle"
    /\ category = 1
    /\ page_number = 0
    /\ pending = 0
    /\ page_articles = 0
    /\ all_articles = <<>>
    /\ result = <<>>
    /\ stop_scraping = FALSE
    /\ exc = ""
    /\ fetched = 0
    /\ extracted = 0
    /\ last_fetch = "none"
    /\ last_elem = NoElem
    /\ stale = FALSE

\* scrape() is entered on a controller of any of the sites
ScrapeInit ==
    /\ site \in Sites
    /\ pc = "fetch"
    /\ category = 1
    /\ page_number = 0
    /\ pending = 0
    /\ page_articles = 0
    /\ all_articles = <<>>
    /\ result = <<>>
    /\ stop_scraping = FALSE
    /\ exc = ""
    /\ fetched = 0
    /\ extracted = 0
    /\ last_fetch = "none"
    /\ last_elem = NoElem
    /\ stale = FALSE

\* Paragraph texts: every short text over Chars, and two longer ones, with
\* the delimiter and with a newline inside
LongTexts == {<<"a", " ", "|", "|", " ", "a">>, <<"a", "\n", "a">>}
Texts == UNION {[1..n -> Chars] : n \in 0..MaxTextLen} \cup LongTexts
ParagraphLists == UNION {[1..n -> Texts] : n \in 0..MaxParagraphs}

(***************************************************************************)
(* SpecHelpers: each helper applied to every input of the bounded sets.    *)
(***************************************************************************)
MkCall(fn, tag, selector, attribute, base_url, default, mode, net, paragraphs) ==
    [fn |-> fn, tag |-> tag, selector |-> selector, attribute |-> attribute,
     base_url |-> base_url, default |-> default, mode |-> mode, net |-> net,
     paragraphs |-> paragraphs]

NoNet == [err |-> FALSE, status |-> 0, text |-> ""]
NoCall == MkCall("", NoneTag, "", "", "", None, FALSE, NoNet, <<>>)

Defaults == {Str(""), Str("No Date"), None}

HelpersIdle == call = NoCall /\ ret = Ret(None)

Call_fetch_page_content ==
    /\ call = NoCall
    /\ UNCHANGED <<runVars, scrapeVars, dateVars, pagingVars, toolVars>>
    /\ \E use_cloudscraper \in BOOLEAN, net \in Responses :
        /\ call' = MkCall("fetch_page_content", NoneTag, "", "", "", None,
                          use_cloudscraper, net, <<>>)
        /\ ret' = fetch_page_content(use_cloudscraper, net)

Call_extract_text ==
    /\ call = NoCall
    /\ UNCHANGED <<runVars, scrapeVars, dateVars, pagingVars, toolVars>>
    /\ \E isNone \in BOOLEAN, found \in BOOLEAN, text \in {"text", ""}, default \in Defaults :
        LET tag == MkTag(isNone, found, {}, "", text)
        IN  /\ call' = MkCall("extract_text", tag, "sel", "", "", default, FALSE, NoNet, <<>>)
            /\ ret' = extract_text(tag, "sel", default)

Call_extract_link ==
    /\ call = NoCall
    /\ UNCHANGED <<runVars, scrapeVars, dateVars, pagingVars, toolVars>>
    /\ \E isNone \in BOOLEAN, found \in BOOLEAN, attrs \in SUBSET {"href", "src"},
       href \in Hrefs, selector \in {"", "a"}, base_url \in BaseUrls, default \in Defaults :
        LET tag == MkTag(isNone, found, attrs, href, "")
        IN  /\ call' = MkCall("extract_link", tag, selector, "", base_url, default,
                              FALSE, NoNet, <<>>)
            /\ ret' = extract_link(tag, selector, base_url, default)

Call_extract_image ==
    /\ call = NoCall
    /\ UNCHANGED <<runVars, scrapeVars, dateVars, pagingVars, toolVars>>
    /\ \E isNone \in BOOLEAN, found \in BOOLEAN, attrs \in SUBSET (AttrNames \ {"href"}),
       attribute \in {"src", "data-src"}, default \in Defaults :
        LET tag == MkTag(isNone, found, attrs, "", "")
        IN  /\ call' = MkCall("extract_image", tag, "sel", attribute, "", default,
                              FALSE, NoNet, <<>>)
            /\ ret' = extract_image(tag, "sel", attribute, default)

Call_extract_content ==
    /\ call = NoCall
    /\ UNCHANGED <<runVars, scrapeVars, dateVars, pagingVars, toolVars>>
    /\ \E isNone \in BOOLEAN, found \in BOOLEAN, paragraphs \in ParagraphLists :
        LET soup == MkTag(isNone, found, {}, "", "")
        IN  /\ call' = MkCall("extract_content", soup, "sel", "", "", None,
                              FALSE, NoNet, paragraphs)
            /\ ret' = extract_content(soup, "sel", paragraphs)

HelpersNext ==
    \/ Call_fetch_page_content
    \/ Call_extract_text
    \/ Call_extract_link
    \/ Call_extract_image
    \/ Call_extract_content


(***************************************************************************)
(* SecurityWeekScraper.calculate_article_date.  A datetime is a number of  *)
(* seconds since an epoch, a date a number of days since it.  A relative   *)
(* time string records what the regular expression can see in it: the      *)
(* digits before the unit (quantity, -1 for none), the unit word, and if   *)
(* "ago" follows.                                                          *)
(***************************************************************************)
MaxQuantity == 3

TimeUnits == {"day", "hour", "minute", "second", "week", "month", "year"}
MkPhrase(quantity, unit, ago) == [quantity |-> quantity, unit |-> unit, ago |-> ago]
NoPhrase == MkPhrase(-1, "", FALSE)

\* re.search(time_pattern, relative_time_str)
re_search_time_pattern(relative_time_str) ==
    /\ relative_time_str.quantity >= 0
    /\ relative_time_str.unit \in TimeUnits
    /\ relative_time_str.ago

\* timedelta(<unit>=quantity) in seconds, for the units of the if/elif chain
timedelta_month_31(time_unit, quantity) ==
    CASE time_unit = "day" -> quantity * 86400
      [] time_unit = "hour" -> quantity * 3600
      [] time_unit = "minute" -> quantity * 60
      [] time_unit = "second" -> quantity
      [] time_unit = "week" -> quantity * 7 * 86400
      [] time_unit = "month" -> 31 * quantity * 86400
      [] OTHER -> 365 * quantity * 86400

timedelta(time_unit, quantity) ==
    CASE time_unit = "day" -> quantity * 86400
      [] time_unit = "hour" -> quantity * 3600
      [] time_unit = "minute" -> quantity * 60
      [] time_unit = "second" -> quantity
      [] time_unit = "week" -> quantity * 7 * 86400
      [] time_unit = "month" -> 30 * quantity * 86400
      [] OTHER -> 365 * quantity * 86400

\* datetime.date()
date_of(datetime) == datetime \div 86400

\* today is datetime.now()
calculate_article_date(relative_time_str, today) ==
    IF ~re_search_time_pattern(relative_time_str) THEN Ret(None)
    ELSE LET quantity == relative_time_str.quantity
             time_unit == relative_time_str.unit
         IN  IF time_unit \in TimeUnits
             THEN Ret(Date(date_of(today - timedelta(time_unit, quantity))))
             ELSE Ret(None)

(***************************************************************************)
(* SpecDates: parse_date and calculate_article_date applied to every input *)
(* of the bounded sets.                                                    *)
(***************************************************************************)
\* What callers pass to parse_date: the text of a date element, the default
\* of extract_text when the element is missing ('' , 'No Date', or None)
DateStrings ==
    {Str(t) : t \in DateTexts} \cup {Str("garbage"), Str(""), Str("No Date"), None}

Phrases ==
    {MkPhrase(q, u, a) : q \in -1..MaxQuantity,
                         u \in TimeUnits \cup {"fortnight", ""}, a \in BOOLEAN}

\* datetime.now(): a day, and a time of day at or next to the hour, minute
\* and day boundaries
Nows == {d * 86400 + t : d \in {1200, 1201}, t \in {0, 1, 59, 60, 3599, 3600, 86399}}

MkDateCall(fn, date_str, relative_time_str, now) ==
    [fn |-> fn, date_str |-> date_str, relative_time_str |-> relative_time_str,
     now |-> now]
NoDateCall == MkDateCall("", None, NoPhrase, 0)

DatesIdle == date_call = NoDateCall /\ date_ret = Ret(None)

Call_parse_date ==
    /\ date_call = NoDateCall
    /\ UNCHANGED <<helperVars, runVars, scrapeVars, pagingVars, toolVars>>
    /\ \E date_str \in DateStrings :
        /\ date_call' = MkDateCall("parse_date", date_str, NoPhrase, 0)
        /\ date_ret' = parse_date(date_str)

Call_calculate_article_date ==
    /\ date_call = NoDateCall
    /\ UNCHANGED <<helperVars, runVars, scrapeVars, pagingVars, toolVars>>
    /\ \E relative_time_str \in Phrases, now \in Nows :
        /\ date_call' = MkDateCall("calculate_article_date", None, relative_time_str, now)
        /\ date_ret' = calculate_article_date(relative_time_str, now)

\* is_article_valid(article_date), its result recorded by its truth value
Call_is_article_valid ==
    /\ date_call = NoDateCall
    /\ UNCHANGED <<helperVars, runVars, scrapeVars, pagingVars, toolVars>>
    /\ \E article_date \in {None, Str(""), Str("No Date"), Date(0), Date(1), Date(2)} :
        /\ date_call' = MkDateCall("is_article_valid", article_date, NoPhrase, 0)
        /\ date_ret' = [exc |-> "", val |-> None, truthy |-> is_article_valid(article_date)]

DatesNext == Call_parse_date \/ Call_calculate_article_date \/ Call_is_article_valid

(***************************************************************************)
(* The controllers that page by reloading the listing and re-triggering    *)
(* 'load more' / 'next': Dragos, TrendMicro, TheRecord, Bitdefender,       *)
(* Presale1, IndustrialCyber.  A listing is the sequence of what           *)
(* extract_article_details makes of its elements: "valid" (an Article),    *)
(* "stale" (None: the date fails validation) or "raise".  Entries of       *)
(* all_articles are positions in the listing, 0 the featured article.      *)
(***************************************************************************)
MaxListing == 4
MaxPageSize == 2

LoadMoreSites == {"Dragos", "TrendMicro"}
ClickReplaySites == {"Bitdefender", "Presale1"}
PagingSites == LoadMoreSites \cup ClickReplaySites \cup {"TheRecord", "IndustrialCyber"}
ElemOutcomes == {"valid", "stale", "raise"}
Listings == UNION {[1..n -> ElemOutcomes] : n \in 0..MaxListing}

\* The number of article elements in driver.page_source after the listing
\* was expanded e times since its reload
visible(e) == Min(Len(listing), page_size * (1 + e))

\* for article in articles[initial_article_count:] of scrape_page, articles
\* the first vis elements of the listing: the elements handed to
\* extract_article_details, the Articles appended, and if one raised
scrape_page_no_offset(initial_article_count, vis) ==
    LET all == [i \in 1..vis |-> i]
        first_raise == IF \E i \in 1..Len(all) : listing[all[i]] = "raise"
                       THEN CHOOSE i \in 1..Len(all) :
                               /\ listing[all[i]] = "raise"
                               /\ \A j \in 1..(i-1) : listing[all[j]] # "raise"
                       ELSE 0
        done == IF first_raise = 0 THEN all ELSE SubSeq(all, 1, first_raise)
    IN  [raised |-> first_raise # 0,
         handed |-> done,
         article_list |-> SelectSeq(done, LAMBDA i : listing[i] = "valid")]

scrape_page(initial_article_count, vis) ==
    LET slice == IF vis > initial_article_count
                 THEN [i \in 1..(vis - initial_article_count) |->
                          initial_article_count + i]
                 ELSE <<>>
        first_raise == IF \E i \in 1..Len(slice) : listing[slice[i]] = "raise"
                       THEN CHOOSE i \in 1..Len(slice) :
                               /\ listing[slice[i]] = "raise"
                               /\ \A j \in 1..(i-1) : listing[slice[j]] # "raise"
                       ELSE 0
        done == IF first_raise = 0 THEN slice ELSE SubSeq(slice, 1, first_raise)
    IN  [raised |-> first_raise # 0,
         handed |-> done,
         article_list |-> SelectSeq(done, LAMBDA i : listing[i] = "valid")]

count_down(load_more) == load_more - 1

\* load_more_count += 1 (page_count, next_count, self.load_more_clicks)

count_up(load_more) == load_more + 1

PagingIdle ==
    /\ pg_site = ""
    /\ pg_pc = "idle"
    /\ listing = <<>>
    /\ page_size = 0
    /\ featured_tag = ""
    /\ pg_articles = <<>>
    /\ load_more_count = 0
    /\ expanded = 0
    /\ scraped_urls = {}
    /\ pg_result = <<>>
    /\ iteration = 0
    /\ processed = <<>>
    /\ loaded = 0

\* The state at the first test of the while loop of scrape() /
\* load_articles_until_min_date(), the listing just opened
PagingInit ==
    /\ pg_site \in PagingSites
    /\ pg_pc = "loop"
    /\ listing \in Listings
    /\ page_size \in 1..MaxPageSize
    /\ featured_tag \in IF pg_site \in {"TrendMicro", "IndustrialCyber"}
                        THEN {"none", "valid", "stale"} ELSE {"none"}
    /\ pg_articles = IF pg_site = "IndustrialCyber" /\ featured_tag = "valid"
                     THEN <<0>> ELSE <<>>
    /\ load_more_count = IF pg_site \in ClickReplaySites \cup {"IndustrialCyber"}
                         THEN 0 ELSE 1
    /\ expanded = 0
    /\ scraped_urls = {}
    /\ pg_result = <<>>
    /\ iteration = 0
    /\ processed = <<>>
    /\ loaded = 0

\* One iteration of the while loop of DragosScraper.scrape and
\* TrendMicroScraper.load_articles_until_min_date: scrape_page from the offset
\* len(all_articles), break when nothing was added, else reload the listing
\* and click 'Load More' up to load_more_count times.  get_next_page_button
\* finds the button a number of times the site decides; click() may raise.
\* An exception leaves DragosScraper.scrape ("raised");
\* TrendMicroScraper.scrape catches it and returns its empty list ("caught").
load_more_iteration ==
    /\ pg_pc = "loop"
    /\ pg_site \in LoadMoreSites
    /\ LET initial_article_count == Len(pg_articles)
           vis == visible(expanded)
           page == scrape_page(initial_article_count, vis)
           featured_article == IF pg_site = "TrendMicro" /\ initial_article_count = 0
                                  /\ featured_tag = "valid"
                               THEN <<0>> ELSE <<>>
           articles == featured_article \o page.article_list
           raise == /\ pg_pc' = IF pg_site = "Dragos" THEN "raised" ELSE "caught"
                    /\ pg_result' = <<>>
       IN  /\ processed' = processed \o page.handed
           /\ loaded' = IF vis > loaded THEN vis ELSE loaded
           /\ iteration' = iteration + 1
           /\ IF page.raised
              THEN /\ raise
                   /\ UNCHANGED <<pg_articles, load_more_count, expanded>>
              ELSE IF articles = <<>>
              THEN /\ pg_pc' = "done"
                   /\ pg_result' = pg_articles
                   /\ UNCHANGED <<pg_articles, load_more_count, expanded>>
              ELSE /\ pg_articles' = pg_articles \o articles
                   /\ \E clicks \in 0..load_more_count, click_raises \in BOOLEAN :
                        /\ expanded' = clicks
                        /\ IF click_raises /\ clicks < load_more_count
                           THEN raise /\ UNCHANGED load_more_count
                           ELSE /\ load_more_count' = count_up(load_more_count)
                                /\ UNCHANGED <<pg_pc, pg_result>>
    /\ UNCHANGED <<pg_site, listing, page_size, featured_tag, scraped_urls>>
    /\ UNCHANGED <<helperVars, runVars, scrapeVars, dateVars, toolVars>>

\* How often a freshly loaded listing can be expanded (or advanced by a
\* page) before everything was shown: the button is there while there is more
max_expansions == IF listing = <<>> THEN 0 ELSE (Len(listing) - 1) \div page_size

\* The replay of BitdefenderScraper.scrape / Presale1Scraper.scrape:
\*   for _ in range(self.load_more_clicks + 1):
\*       self.driver.get(self.base_url)
\*       for _ in range(self.load_more_clicks):
\*           if not self.click_load_more(): return all_articles
\* rounds: iterations of the outer for still to run; clicks: the counter
\* self.load_more_clicks, which every successful click_load_more increments;
\* budget: how many more clicks the site lets succeed.
RECURSIVE replay(_, _, _, _)
replay(rounds, clicks, shown, budget) ==
    IF rounds = 0
    THEN [ok |-> TRUE, clicks |-> clicks, expanded |-> shown, budget |-> budget]
    ELSE LET succeed == Min(clicks, Min(budget, max_expansions))
         IN  IF succeed < clicks
             THEN [ok |-> FALSE, clicks |-> clicks + succeed, expanded |-> succeed,
                   budget |-> budget - succeed]
             ELSE replay(rounds - 1, clicks + clicks, clicks, budget - clicks)

\* One iteration of the while loop of BitdefenderScraper.scrape and
\* Presale1Scraper.scrape: every element shown is handed to
\* extract_article_details ('pass' for a link in scraped_urls, None for a
\* date that fails validation, which ends scrape), then the replay and one
\* more click.
click_replay_iteration ==
    /\ pg_pc = "loop"
    /\ pg_site \in ClickReplaySites
    /\ LET vis == visible(expanded)
           is_pass(i) == IF pg_site = "Bitdefender" THEN i \in scraped_urls
                         ELSE listing[i] # "stale" /\ i \in scraped_urls
           stops == {i \in 1..vis : ~is_pass(i) /\ listing[i] # "valid"}
           last == IF stops = {} THEN vis
                   ELSE CHOOSE i \in stops : \A j \in stops : i <= j
           handed == [i \in 1..last |-> i]
           added == SelectSeq(handed, LAMBDA i : ~is_pass(i) /\ listing[i] = "valid")
       IN  /\ processed' = processed \o handed
           /\ loaded' = IF vis > loaded THEN vis ELSE loaded
           /\ iteration' = iteration + 1
           /\ scraped_urls' = scraped_urls \cup
                 {i \in 1..last : pg_site = "Bitdefender" \/ listing[i] # "stale"}
           /\ IF vis = 0
              THEN /\ pg_pc' = "done"
                   /\ pg_result' = pg_articles
                   /\ UNCHANGED <<pg_articles, load_more_count, expanded>>
              ELSE IF stops # {}
              THEN /\ pg_pc' = IF listing[last] = "raise" THEN "raised" ELSE "done"
                   /\ pg_result' = IF listing[last] = "raise" THEN <<>>
                                   ELSE pg_articles \o added
                   /\ pg_articles' = pg_articles \o added
                   /\ UNCHANGED <<load_more_count, expanded>>
              ELSE \E budget \in 0..(2 * MaxListing) :
                     LET r == replay(load_more_count + 1, load_more_count, expanded, budget)
                         more == r.ok /\ r.budget > 0 /\ r.expanded < max_expansions
                     IN  /\ pg_articles' = pg_articles \o added
                         /\ load_more_count' = IF more THEN count_up(r.clicks) ELSE r.clicks
                         /\ expanded' = IF more THEN r.expanded + 1 ELSE r.expanded
                         /\ pg_pc' = IF more THEN "loop" ELSE "done"
                         /\ pg_result' = IF more THEN pg_result ELSE pg_articles \o added
    /\ UNCHANGED <<pg_site, listing, page_size, featured_tag>>
    /\ UNCHANGED <<helperVars, runVars, scrapeVars, dateVars, toolVars>>

\* The elements of the page the driver is at, expanded 'next' clicks after
\* the first
page_elements ==
    LET from == expanded * page_size
        to == Min(Len(listing), from + page_size)
    IN  IF to > from THEN [i \in 1..(to - from) |-> from + i] ELSE <<>>

\* One iteration of the while loop of TheRecordScraper.scrape: every container
\* of the page is processed (an invalid one sets stop_scraping and the for
\* loop goes on), then the listing is reloaded and 'next' clicked page_count
\* times; a click that fails sets stop_scraping.  The loop is left when
\* stop_scraping is set.
TheRecord_iteration ==
    /\ pg_pc = "loop"
    /\ pg_site = "TheRecord"
    /\ LET containers == page_elements
           raises == \E i \in 1..Len(containers) : listing[containers[i]] = "raise"
           invalid == \E i \in 1..Len(containers) : listing[containers[i]] = "stale"
           added == SelectSeq(containers, LAMBDA i : listing[i] = "valid")
       IN  /\ processed' = processed \o containers
           /\ loaded' = loaded
           /\ iteration' = iteration + 1
           /\ IF raises
              THEN /\ pg_pc' = "raised"
                   /\ UNCHANGED <<pg_articles, load_more_count, expanded, pg_result>>
              ELSE \E budget \in 0..MaxListing :
                     LET clicks == Min(load_more_count, Min(budget, max_expansions))
                         stop_now == invalid \/ clicks < load_more_count
                     IN  /\ pg_articles' = pg_articles \o added
                         /\ expanded' = clicks
                         /\ load_more_count' = count_up(load_more_count)
                         /\ pg_pc' = IF stop_now THEN "done" ELSE "loop"
                         /\ pg_result' = IF stop_now THEN pg_articles \o added
                                         ELSE pg_result
    /\ UNCHANGED <<pg_site, listing, page_size, featured_tag, scraped_urls>>
    /\ UNCHANGED <<helperVars, runVars, scrapeVars, dateVars, toolVars>>

\* One iteration of the while loop of IndustrialCyberScraper.scrape_category:
\* the archive posts of the page up to the first invalid one (an exception is
\* caught per preview), return when the list ends with None (IndexError when
\* it is empty), else reload, next_count += 1 and click 'next' next_count
\* times, returning when a click fails.
IndustrialCyber_iteration ==
    /\ pg_pc = "loop"
    /\ pg_site = "IndustrialCyber"
    /\ LET previews == page_elements
           stales == {i \in 1..Len(previews) : listing[previews[i]] = "stale"}
           last == IF stales = {} THEN Len(previews)
                   ELSE CHOOSE i \in stales : \A j \in stales : i <= j
           handed == SubSeq(previews, 1, last)
           added == SelectSeq(handed, LAMBDA i : listing[i] = "valid")
           all == pg_articles \o added
       IN  /\ processed' = processed \o handed
           /\ loaded' = loaded
           /\ iteration' = iteration + 1
           /\ pg_articles' = all
           /\ IF stales # {}
              THEN /\ pg_pc' = "done"
                   /\ pg_result' = all
                   /\ UNCHANGED <<load_more_count, expanded>>
              ELSE IF all = <<>>
              THEN /\ pg_pc' = "raised"
                   /\ UNCHANGED <<load_more_count, expanded, pg_result>>
              ELSE \E budget \in 0..MaxListing :
                     LET next_count == count_up(load_more_count)
                         clicks == Min(next_count, Min(budget, max_expansions))
                     IN  /\ load_more_count' = next_count
                         /\ expanded' = clicks
                         /\ pg_pc' = IF clicks < next_count THEN "done" ELSE "loop"
                         /\ pg_result' = IF clicks < next_count THEN all ELSE pg_result
    /\ UNCHANGED <<pg_site, listing, page_size, featured_tag, scraped_urls>>
    /\ UNCHANGED <<helperVars, runVars, scrapeVars, dateVars, toolVars>>

PagingNext ==
    \/ load_more_iteration
    \/ click_replay_iteration
    \/ TheRecord_iteration
    \/ IndustrialCyber_iteration

(***************************************************************************)
(* The stand-alone functions: save_results and get_user_input of the       *)
(* scraper, the link de-duplication script, the PowerPoint tools.          *)
(***************************************************************************)
MaxSaved == 2

ToolsIdle ==
    /\ tool_call = [fn |-> ""]
    /\ tool_ret = [fn |-> ""]

\* save_results.  The sheet is the sequence of its data rows, a row the
\* sequence of its cells in column order, a cell its value, hyperlink and
\* style.  A date written to a cell is held as a date-time (midnight).
Datetime(seconds) == [t |-> "datetime", s |-> "", n |-> seconds]

vars_article_sorted(a) ==
    <<a.content, a.date, a.description, a.image, Str(a.source), a.tags, Str(a.title),
      Str(a.url)>>

\* vars(article): the attributes in the order __init__ assigns them
vars_article(a) ==
    <<Str(a.title), Str(a.url), a.date, Str(a.source), a.tags, a.description, a.image,
      a.content>>

\* articles_df.to_excel: one row per article, one cell per attribute
to_excel(articles_data) ==
    [r \in 1..Len(articles_data) |->
        [c \in 1..Len(articles_data[r]) |->
            LET v == articles_data[r][c]
            IN  [value |-> IF v.t = "date" THEN Datetime(v.n * 86400) ELSE v,
                 hyperlink |-> None, style |-> "Normal"]]]

\* cell.hyperlink = url; cell.style = "Hyperlink": a cell without a value
\* takes the target as its value
hyperlink(cell, url) ==
    IF url.t = "None" THEN [cell EXCEPT !.hyperlink = None, !.style = "Hyperlink"]
    ELSE [cell EXCEPT !.hyperlink = url, !.style = "Hyperlink",
                      !.value = IF cell.value.t = "None" THEN url ELSE cell.value]

\* articles: the Articles in the order the set is iterated.  An empty
\* DataFrame has no column 'url'.
save_results(articles) ==
    LET articles_data == [i \in 1..Len(articles) |-> vars_article(articles[i])]
        written == to_excel(articles_data)
        sheet == [r \in 1..Len(written) |->
                    [written[r] EXCEPT
                        ![2] = hyperlink(@, Str(articles[r].url)),
                        ![7] = hyperlink(@, articles[r].image),
                        ![3] = [@ EXCEPT !.style = "date_style"]]]
    IN  IF articles = <<>> THEN [exc |-> "KeyError", sheet |-> <<>>]
        ELSE [exc |-> "", sheet |-> sheet]

SavedArticles ==
    {Article(title, url, date, None, "CSOOnline", None, image, Str("c")) :
        title \in {"t1", "t2"}, url \in {"u1", ""}, date \in {Date(1), Str("No Date")},
        image \in {None, Str("i")}}
SavedLists ==
    {l \in UNION {[1..n -> SavedArticles] : n \in 0..MaxSaved} :
        \A i, j \in 1..Len(l) : i # j => ~Article_eq(l[i], l[j])}

Call_save_results ==
    /\ tool_call.fn = ""
    /\ UNCHANGED <<helperVars, runVars, scrapeVars, dateVars, pagingVars>>
    /\ \E articles \in SavedLists :
        /\ tool_call' = [fn |-> "save_results", articles |-> articles]
        /\ tool_ret' = save_results(articles)

\* get_user_input.  A token is one piece of selected_input.split(','); the
\* three string methods are tables over the tokens considered.  "sup2" is
\* the one-character token SUPERSCRIPT TWO, a digit that is no decimal.
MaxConfigs == 2
MaxTokens == 2
Tokens == {"0", "1", "2", "9", "01", " 1", " 0", "x", "sup2", ""}

str_strip(token) == CASE token = " 1" -> "1" [] token = " 0" -> "0"
                      [] token = " [Translated text here] " -> "[Translated text here]"
                      [] OTHER -> token
str_isdigit(token) == token \in {"0", "1", "2", "9", "01", "sup2"}
\* int(token) raises ValueError unless the token is a decimal literal
int_ValueError(token) == token \notin {"0", "1", "2", "9", "01"}
int(token) == CASE token = "0" -> 0 [] token = "1" -> 1 [] token = "2" -> 2
                [] token = "9" -> 9 [] token = "01" -> 1

\* {... for site in selected_sites if site.strip().isdigit()}
digit_tokens(selected_sites) ==
    {selected_sites[i] : i \in {k \in 1..Len(selected_sites) :
                                   str_isdigit(str_strip(selected_sites[k]))}}

\* The orders in which a set can be iterated
Orders(S) == {o \in [1..Cardinality(S) -> S] : \A i, j \in DOMAIN o : i # j => o[i] # o[j]}

\* get_user_input(configs) with the two lines the user types; order is the
\* order in which the list comprehension iterates the set selected_indices.
\* The result is the pair returned: selected is None or the list of
\* configurations.
get_user_input(cfgs, selected_sites, order, min_date_str) ==
    LET all == \E i \in 1..Len(selected_sites) : selected_sites[i] = "0"
        tokens == digit_tokens(selected_sites)
        ValueError == \E token \in tokens : int_ValueError(str_strip(token))
        selected_configs ==
            IF all THEN cfgs
            ELSE LET in_range == SelectSeq(order, LAMBDA index : 1 <= index /\ index <= Len(cfgs))
                 IN  [i \in 1..Len(in_range) |-> cfgs[in_range[i]]]
        date == strptime(Str(min_date_str))
        none == [none |-> TRUE, selected_configs |-> <<>>, min_date |-> None]
    IN  IF ~all /\ ValueError THEN none
        ELSE IF selected_configs = <<>> THEN none
        ELSE [none |-> FALSE, selected_configs |-> selected_configs,
              min_date |-> IF date.exc = "ValueError" THEN Date(MIN_DATE) ELSE date.val]

Call_get_user_input ==
    /\ tool_call.fn = ""
    /\ UNCHANGED <<helperVars, runVars, scrapeVars, dateVars, pagingVars>>
    /\ \E n \in 0..MaxConfigs, min_date_str \in {"day0", "day2", "garbage"},
          selected_sites \in UNION {[1..k -> Tokens] : k \in 1..MaxTokens} :
        LET cfgs == [i \in 1..n |-> [name |-> i]]
            selected_indices ==
                {int(str_strip(token)) :
                    token \in {t \in digit_tokens(selected_sites) : ~int_ValueError(str_strip(t))}}
        IN  \E order \in Orders(selected_indices) :
              /\ tool_call' = [fn |-> "get_user_input", configs |-> cfgs,
                               selected_sites |-> selected_sites,
                               min_date_str |-> min_date_str]
              /\ tool_ret' = get_user_input(cfgs, selected_sites, order, min_date_str)

\* The link de-duplication script (Duplicate links/duplicates.py).  A url
\* cell is a text, given by what precedes its trailing slashes and their
\* number, or is empty (NaN).
MaxLinks == 2
MaxSlashes == 1
NaN == [nan |-> TRUE, base |-> "", slashes |-> 0]
Url(base, slashes) == [nan |-> FALSE, base |-> base, slashes |-> slashes]
UrlCells == {NaN} \cup {Url(b, k) : b \in {"a", "b"}, k \in 0..MaxSlashes}
UrlColumns == UNION {[1..k -> UrlCells] : k \in 0..MaxLinks}

rstrip_nothing(cell) == cell

\* Series.str.rstrip('/') on one cell: every trailing slash goes, NaN stays
rstrip(cell) == IF cell.nan THEN cell ELSE Url(cell.base, 0)

\* Series.isin(values) on one cell
isin(cell, values) == \E j \in 1..Len(values) : values[j] = cell

\* The script from the two sheets read to the sheet saved.  A row of
\* new_links is its index label and its url cell.
duplicates(new_urls, old_urls) ==
    LET old_links == [j \in 1..Len(old_urls) |-> rstrip(old_urls[j])]
        new_links == [i \in 1..Len(new_urls) |-> [row |-> i, url |-> rstrip(new_urls[i])]]
        removed_links == SelectSeq(new_links, LAMBDA r : isin(r.url, old_links))
        filtered_new_links == SelectSeq(new_links, LAMBDA r : ~isin(r.url, old_links))
    IN  [old_links |-> old_links, new_links |-> new_links,
         removed_links |-> removed_links,
         filtered_new_links |-> filtered_new_links,
         saved |-> [i \in 1..Len(filtered_new_links) |-> filtered_new_links[i].url]]

Call_duplicates ==
    /\ tool_call.fn = ""
    /\ UNCHANGED <<helperVars, runVars, scrapeVars, dateVars, pagingVars>>
    /\ \E new_urls \in UrlColumns, old_urls \in UrlColumns :
        /\ tool_call' = [fn |-> "duplicates", new_urls |-> new_urls, old_urls |-> old_urls]
        /\ tool_ret' = duplicates(new_urls, old_urls)

\* The PowerPoint text tool (PowerPoint Tools/extract_text_from_pptx.py).
\* A presentation is the list of its slides, a slide the list of its
\* shapes, a text frame the list of its paragraphs, a paragraph the list of
\* the texts of its runs.
MaxSlides == 2
TextShape(shape_id, paragraphs) ==
    [shape_id |-> shape_id, has_text_frame |-> TRUE, paragraphs |-> paragraphs]
Picture(shape_id) ==
    [shape_id |-> shape_id, has_text_frame |-> FALSE, paragraphs |-> <<>>]
SlideLayouts ==
    { <<TextShape(1, << <<"Hello, ", "World!">> >>), Picture(2)>>,
      <<TextShape(1, << <<"a">>, <<>> >>)>>,
      <<>> }
Presentations == UNION {[1..k -> SlideLayouts] : k \in 0..MaxSlides}

\* One run entry of the JSON file with the slide, shape and paragraph entry
\* it is nested in
RunEntries ==
    [slide_number : 0..(MaxSlides + 1), shape_id : {1, 2, 9},
     paragraph_index : -1..2, run_index : -1..2, original_text : {"orig"},
     translated_text : {Str("[Translated text here]"), Str(" [Translated text here] "),
                        Str("shalom"), None}]

RECURSIVE concat(_)
concat(lists) ==
    IF Len(lists) = 0 THEN <<>> ELSE Head(lists) \o concat(Tail(lists))

\* extract_text_runs_to_json: the run entries written, in file order; the
\* file is only written when json_path names a directory (os.makedirs of '')
extract_text_runs_to_json(prs, json_dir) ==
    LET run_data(s, h, p, r) ==
            [slide_number |-> s, shape_id |-> prs[s][h].shape_id,
             paragraph_index |-> p - 1, run_index |-> r - 1,
             original_text |-> prs[s][h].paragraphs[p][r],
             translated_text |-> Str("[Translated text here]")]
        paragraph_data(s, h, p) ==
            [r \in 1..Len(prs[s][h].paragraphs[p]) |-> run_data(s, h, p, r)]
        shape_data(s, h) ==
            IF prs[s][h].has_text_frame
            THEN concat([p \in 1..Len(prs[s][h].paragraphs) |-> paragraph_data(s, h, p)])
            ELSE <<>>
        slide_data(s) == concat([h \in 1..Len(prs[s]) |-> shape_data(s, h)])
    IN  IF json_dir
        THEN [exc |-> "", data |-> concat([s \in 1..Len(prs) |-> slide_data(s)])]
        ELSE [exc |-> "FileNotFoundError", data |-> <<>>]

\* Python's sequence[index] as a position 1..length: a negative index counts
\* from the end, an index outside -length..length-1 raises IndexError
IndexError(index, length) == index < -length \/ index >= length
getitem(index, length) == IF index < 0 THEN length + index + 1 ELSE index + 1

\* The body of the loops of insert_translated_text_runs for one run entry
insert_run(prs, run_data) ==
    LET skip == [exc |-> "", prs |-> prs]
        raise == [exc |-> "IndexError", prs |-> prs]
        slide_index == run_data.slide_number - 1
    IN  IF slide_index >= Len(prs) THEN skip
        ELSE IF IndexError(slide_index, Len(prs)) THEN raise
        ELSE
          LET s == getitem(slide_index, Len(prs))
              found == {h \in 1..Len(prs[s]) :
                          prs[s][h].shape_id = run_data.shape_id /\ prs[s][h].has_text_frame}
          IN  IF found = {} THEN skip
              ELSE
                LET target_shape == CHOOSE h \in found : \A k \in found : h <= k
                    paragraphs == prs[s][target_shape].paragraphs
                    para_index == run_data.paragraph_index
                IN  IF para_index >= Len(paragraphs) THEN skip
                    ELSE IF IndexError(para_index, Len(paragraphs)) THEN raise
                    ELSE
                      LET p == getitem(para_index, Len(paragraphs))
                          runs == paragraphs[p]
                          run_index == run_data.run_index
                          translated_text ==
                              IF run_data.translated_text = None
                              THEN run_data.original_text
                              ELSE run_data.translated_text.s
                      IN  IF run_index >= Len(runs) THEN skip
                          ELSE IF str_strip(translated_text) = "[Translated text here]" THEN skip
                          ELSE IF IndexError(run_index, Len(runs)) THEN raise
                          ELSE [exc |-> "",
                                prs |-> [prs EXCEPT ![s][target_shape].paragraphs[p][getitem(run_index, Len(runs))] =
                                                        translated_text]]

\* insert_translated_text_runs: the entries in file order, then prs.save,
\* which an exception on the way leaves out
RECURSIVE insert_translated_text_runs(_, _)
insert_translated_text_runs(prs, data) ==
    IF Len(data) = 0 THEN [exc |-> "", saved |-> TRUE, prs |-> prs]
    ELSE LET one == insert_run(prs, Head(data))
         IN  IF one.exc # "" THEN [exc |-> one.exc, saved |-> FALSE, prs |-> one.prs]
             ELSE insert_translated_text_runs(one.prs, Tail(data))

\* Mode extract, then mode insert on the same presentation with the file
\* written, to which a translator may have added one run entry
Call_extract_then_insert ==
    /\ tool_call.fn = ""
    /\ UNCHANGED <<helperVars, runVars, scrapeVars, dateVars, pagingVars>>
    /\ \E prs \in Presentations, json_dir \in BOOLEAN,
          added \in {<<>>} \cup {<<e>> : e \in RunEntries} :
        LET extracted_json == extract_text_runs_to_json(prs, json_dir)
            data == extracted_json.data \o added
        IN  IF extracted_json.exc # ""
            THEN /\ added = <<>>
                 /\ tool_call' = [fn |-> "extract_text_runs_to_json", prs |-> prs, data |-> <<>>]
                 /\ tool_ret' = [exc |-> extracted_json.exc, saved |-> FALSE, prs |-> prs]
            ELSE /\ tool_call' = [fn |-> "insert_translated_text_runs", prs |-> prs, data |-> data]
                 /\ tool_ret' = insert_translated_text_runs(prs, data)

ToolsNext ==
    \/ Call_save_results
    \/ Call_get_user_input
    \/ Call_duplicates
    \/ Call_extract_then_insert

(***************************************************************************)
(* Claims                                                                  *)
(***************************************************************************)
StrictStopSites ==
    {"CSOOnline", "HackerNews", "Incibe", "BleepingComputer", "InfoSecurityMagazine",
     "SecurityAffairs", "TripWire", "SANS", "DarkReading"}

\* The controllers that validate the date read on the listing and then fetch
\* the detail page with fetch_page_content
ListingDateSites ==
    Sites \ {"Nozomi", "CyberSecurityDive", "Sectrio", "SANS", "TheRecord"}

IsStaleDate(d) == d.t = "date" /\ d.n < MIN_DATE
IsKeptDate(d) == d.t = "str" \/ (d.t = "date" /\ d.n >= MIN_DATE)

\* C1: the aggregate set of scrape_selected_sites never holds two articles
\* with the same (title, url) pair, whatever the sites selected and whatever
\* the lists they return.
C1_UniqueKeys ==
    \A a \in run_articles : \A b \in run_articles :
        (a.title = b.title /\ a.url = b.url) => a = b

\* C1 witness: the run has returned after an article was dropped for one
\* with the same key
C1_Witness ==
    /\ run_pc = "returned"
    /\ merged # {}
    /\ run_articles # {}

\* C2: articles with equal title and url are one record of the aggregate even
\* when the other fields or the site differ, articles that differ in title or
\* url are all retained: the keys of the aggregate are exactly the keys of
\* the lists returned by the sites that did not raise, one record per key.
C2_KeysAreUnion ==
    /\ {<<a.title, a.url>> : a \in run_articles} = returned
    /\ Cardinality(run_articles) = Cardinality(returned)

\* C2 witness: two sites ran and the run returned; an article of one was
\* dropped for an article of the other with the same key and another date,
\* and two keys that share the title are both retained
C2_Witness ==
    /\ run_pc = "returned"
    /\ \E d \in merged : \E a \in run_articles :
         /\ a.title = d.title /\ a.url = d.url
         /\ a.source # d.source
         /\ a.date # d.date
    /\ \E a \in run_articles : \E b \in run_articles :
         a.title = b.title /\ a.url # b.url

\* C3: a controller that stops at the first stale article never holds, in
\* the articles of the current listing or in the list scrape() returns, an
\* article whose date is a date earlier than min_date.
C3_StrictStopNoStale ==
    site \in StrictStopSites =>
        /\ \A i \in 1..Len(all_articles) : ~IsStaleDate(all_articles[i].date)
        /\ \A i \in 1..Len(result) : ~IsStaleDate(result[i].date)

\* C3 witness: a strict-stop controller has returned a non-empty list and the
\* last element it looked at was dated before min_date
C3_Witness ==
    /\ site \in StrictStopSites
    /\ pc = "done"
    /\ last_elem.date = "day0"
    /\ Len(result) >= 1

\* C4: for every controller, every Article of the list scrape() returns has
\* a date that is a string marker or a date >= min_date, the hero and top-story
\* articles of CyberSecurityDive included.
C4_ReturnedDatesKept ==
    pc = "done" => \A i \in 1..Len(result) : IsKeptDate(result[i].date)

\* C5: once an element of a listing page has failed the date validation, the
\* controller extracts no later element of the page and requests no further
\* listing page.
C5_NothingAfterStale ==
    [][stale => (extracted' = extracted /\ fetched' = fetched)]_vars

\* C6: in a paginating controller, a successfully fetched listing page with
\* no article element ends the listing: while the controller is still in the
\* listing whose last page was empty, it requests no listing page.  Stated
\* for the controllers that fetch the listing with fetch_page_content.
C6_EmptyListingEnds ==
    [][(/\ Paginates(site)
        /\ site \notin DriverSites
        /\ last_fetch = "empty"
        /\ page_number > 0)
          => fetched' = fetched]_vars

\* C7: when the fetch of a listing page returns failure, the listing ends
\* there without an exception, and every article accumulated before the
\* failure is in scrape()'s result; scrape() returns, or goes to its next
\* category.
C7_FailedFetchEndsListing ==
    [][(pc = "fetch" /\ last_fetch' = "failed")
          => /\ exc' = ""
             /\ result' = result \o all_articles
             /\ \/ pc' = "done"
                \/ pc' = "fetch" /\ category' = category + 1]_vars

\* C7 witness: scrape() has returned articles, and its last listing fetch
\* failed
C7_Witness ==
    /\ pc = "done"
    /\ last_fetch = "failed"
    /\ exc = ""
    /\ Len(result) >= 1

\* C8: fetch_page_content never raises; a non-200 response and a transport
\* error both give None, a 200 response gives the page text.
C8_FetchNeverRaises ==
    call.fn = "fetch_page_content" =>
        /\ ret.exc = ""
        /\ (call.net.err \/ call.net.status # 200) => ret.val = None
        /\ (~call.net.err /\ call.net.status = 200) => ret.val = Str(call.net.text)

\* C9: when the detail-page fetch of an article with a valid listing date
\* fails, extract_article_details still gives an Article and the controller
\* goes on with the next element of the page: no exception, no stop.
C9_DetailFailureKeepsArticle ==
    [][(/\ pc = "articles"
        /\ site \in ListingDateSites
        /\ extracted' = extracted + 1
        /\ last_elem'.detail = "non200"
        /\ last_elem'.href # ""
        /\ last_elem'.date \in {"day1", "day2"}
        /\ last_elem'.kind = "normal")
          => /\ pc' \in {"articles", "end_page"}
             /\ Len(all_articles') = Len(all_articles) + 1
             /\ all_articles'[Len(all_articles')].content = None]_vars

\* C10: on a parsed node, extract_text, extract_link, extract_image and
\* extract_content do not raise when the selector matches nothing or the
\* element has none of the attributes looked for: they return the caller's
\* default, extract_content the empty string.
C10_MissingElementGivesDefault ==
    /\ (call.fn = "extract_text" /\ ~call.tag.isNone /\ ~call.tag.found)
          => ret = Ret(call.default)
    /\ (/\ call.fn = "extract_link"
        /\ ~call.tag.isNone
        /\ (call.selector # "" /\ ~call.tag.found) \/ "href" \notin call.tag.attrs)
          => ret = Ret(call.default)
    /\ (/\ call.fn = "extract_image"
        /\ ~call.tag.isNone
        /\ \/ ~call.tag.found
           \/ call.tag.attrs \cap {call.attribute, "src", "data-cfsrc", "data-srcset"} = {})
          => ret = Ret(call.default)
    /\ (call.fn = "extract_content" /\ ~call.tag.isNone /\ ~call.tag.found)
          => ret = Ret(Str(""))

\* C10 witness: extract_image on an element that was found and has none of
\* the attributes returned the caller's default
C10_Witness ==
    /\ call.fn = "extract_image"
    /\ ~call.tag.isNone
    /\ call.tag.found
    /\ call.tag.attrs = {}
    /\ call.default = Str("No Date")
    /\ ret = Ret(Str("No Date"))

\* C11: parse_date never raises: for every input a caller passes, the None
\* default of a missing date element included, it returns a date or the
\* marker 'No Date'.
C11_ParseDateNeverRaises ==
    date_call.fn = "parse_date" =>
        /\ date_ret.exc = ""
        /\ date_ret.val.t = "date" \/ date_ret.val = Str("No Date")

\* C12: calculate_article_date, for '<n> <unit>s ago' with n >= 0 and the
\* current time now, returns the date of now minus n units, a week being 7
\* days, a month 30 days and a year 365 days; for a phrase with an
\* unrecognized unit or without the relative pattern it returns None.
C12_RelativeDate ==
    date_call.fn = "calculate_article_date" =>
        LET p == date_call.relative_time_str
            seconds == CASE p.unit = "day" -> 86400
                         [] p.unit = "hour" -> 3600
                         [] p.unit = "minute" -> 60
                         [] p.unit = "second" -> 1
                         [] p.unit = "week" -> 7 * 86400
                         [] p.unit = "month" -> 30 * 86400
                         [] OTHER -> 365 * 86400
        IN  IF p.quantity >= 0 /\ p.unit \in TimeUnits /\ p.ago
            THEN date_ret = Ret(Date((date_call.now - p.quantity * seconds) \div 86400))
            ELSE date_ret = Ret(None)

\* C12 witness: '3 months ago' at the first second of a day gave the date 90
\* days before
C12_Witness ==
    /\ date_call.fn = "calculate_article_date"
    /\ date_call.relative_time_str = MkPhrase(3, "month", TRUE)
    /\ date_call.now = 1200 * 86400
    /\ date_ret = Ret(Date(1110))

\* The URLs with a scheme and a host that the model's URLs can resolve to
IsAbsoluteUrl(url) ==
    \E host \in {"x.com", "y.com"} :
        \E path \in {"/a/", "/a", "/a/b", "/b", "/c", "/e", "/d"} :
            url = "https://" \o host \o path

\* C13: extract_link, for an element with a relative href and a base URL,
\* returns the href resolved against the base as an absolute URL (base
\* 'https://x.com/a/' and href 'b' give 'https://x.com/a/b'); an href that is
\* already absolute is returned unchanged.
C13_LinkResolved ==
    (/\ call.fn = "extract_link"
     /\ ~call.tag.isNone
     /\ call.selector # "" => call.tag.found
     /\ "href" \in call.tag.attrs
     /\ call.tag.href # ""
     /\ call.base_url # "")
      => /\ ret.exc = ""
         /\ ret.val.t = "str"
         /\ IsAbsoluteUrl(ret.val.s)
         /\ call.tag.href = "https://y.com/d" => ret.val.s = "https://y.com/d"
         /\ (call.base_url = "https://x.com/a/" /\ call.tag.href = "b")
               => ret.val.s = "https://x.com/a/b"
         /\ (call.base_url = "https://x.com/a" /\ call.tag.href = "b")
               => ret.val.s = "https://x.com/b"
         /\ call.tag.href = "/c" => ret.val.s = "https://x.com/c"

\* C13 witness: the href 'b' of a matched element was resolved against the
\* base 'https://x.com/a/'
C13_Witness ==
    /\ call.fn = "extract_link"
    /\ call.selector = "a"
    /\ call.tag.found
    /\ call.tag.href = "b"
    /\ call.base_url = "https://x.com/a/"
    /\ ret = Ret(Str("https://x.com/a/b"))

\* C14: for every controller, the url of every Article that scrape() returns
\* is an absolute URL, the listing href resolved against the site's base URL;
\* no Article has a raw relative href or a placeholder such as '' or 'No link'.
C14_ReturnedUrlsAbsolute ==
    pc = "done" => \A i \in 1..Len(result) : IsAbsoluteUrl(result[i].url)

\* What the statements about extract_content say of its output, as
\* sequences of characters
Delimiter == <<" ", "|", "|", " ">>
NonEmptyTexts(paragraphs) == SelectSeq(paragraphs, LAMBDA t : t # <<>>)
OnlyPrintable(text) == SelectSeq(text, LAMBDA c : c \in {"a", ",", "|", " "})
CommaNewlineToSpace(text) ==
    [i \in 1..Len(text) |-> IF text[i] = "," \/ text[i] = "\n" THEN " " ELSE text[i]]

RECURSIVE JoinedWithDelimiter(_)
JoinedWithDelimiter(texts) ==
    IF texts = <<>> THEN <<>>
    ELSE IF Len(texts) = 1 THEN texts[1]
    ELSE texts[1] \o Delimiter \o JoinedWithDelimiter(Tail(texts))

\* text.split(' || '), seg being the segment read so far
RECURSIVE SplitOnDelimiter(_, _)
SplitOnDelimiter(text, seg) ==
    IF text = <<>> THEN <<seg>>
    ELSE IF Len(text) >= 4 /\ SubSeq(text, 1, 4) = Delimiter
         THEN <<seg>> \o SplitOnDelimiter(SubSeq(text, 5, Len(text)), <<>>)
         ELSE SplitOnDelimiter(Tail(text), Append(seg, Head(text)))

\* C15: extract_content returns the texts of the non-empty p/h2/h3/li
\* elements of the selected subtree, in document order, joined with ' || ',
\* with the characters outside the printable ASCII range removed and no other
\* change; the empty string when the selector matches nothing.
C15_ContentIsJoinedTexts ==
    (call.fn = "extract_content" /\ ~call.tag.isNone) =>
        ret = Ret(Str(Flatten(
                IF call.tag.found
                THEN OnlyPrintable(JoinedWithDelimiter(NonEmptyTexts(call.paragraphs)))
                ELSE <<>>)))

\* C15 as amended: the same, with every newline and every comma of a
\* paragraph text replaced by a space before the texts are joined.
C15_ContentIsJoinedTextsCommasReplaced ==
    (call.fn = "extract_content" /\ ~call.tag.isNone) =>
        ret = Ret(Str(Flatten(
                IF call.tag.found
                THEN OnlyPrintable(JoinedWithDelimiter(
                        [i \in 1..Len(NonEmptyTexts(call.paragraphs)) |->
                            CommaNewlineToSpace(NonEmptyTexts(call.paragraphs)[i])]))
                ELSE <<>>)))

\* C15 witness: of a paragraph with a comma and a paragraph with a non-ASCII
\* character, the content 'a  || a' was returned
C15_Witness ==
    /\ call.fn = "extract_content"
    /\ ~call.tag.isNone
    /\ call.tag.found
    /\ call.paragraphs = << <<"a", ",">>, <<"<U+00E9>", "a">> >>
    /\ ret = Ret(Str("a  || a"))

\* C16: in the output of extract_content ' || ' occurs only between
\* paragraphs: splitting the output on ' || ' gives exactly one non-empty
\* segment for each non-empty paragraph collected.
C16_DelimiterOnlyBetweenParagraphs ==
    (call.fn = "extract_content" /\ ~call.tag.isNone /\ call.tag.found) =>
        LET out == extract_content_chars(call.tag, call.paragraphs)
            collected == NonEmptyTexts(call.paragraphs)
            segments == SplitOnDelimiter(out, <<>>)
        IN  /\ ret = Ret(Str(Flatten(out)))
            /\ IF collected = <<>> THEN out = <<>>
               ELSE /\ Len(segments) = Len(collected)
                    /\ \A i \in 1..Len(segments) : segments[i] # <<>>

\* C17: extract_image, for a matched element, returns the value of the named
\* attribute when the element has it, otherwise the value of the first
\* attribute it has in the order src, data-cfsrc, data-srcset, and the default
\* when it has none of them.  (The value of an attribute is modelled by the
\* attribute's name.)
C17_ImageAttributeOrder ==
    (call.fn = "extract_image" /\ ~call.tag.isNone /\ call.tag.found) =>
        ret = Ret(CASE call.attribute \in call.tag.attrs -> Str(call.attribute)
                    [] "src" \in call.tag.attrs -> Str("src")
                    [] "data-cfsrc" \in call.tag.attrs -> Str("data-cfsrc")
                    [] "data-srcset" \in call.tag.attrs -> Str("data-srcset")
                    [] OTHER -> call.default)

\* C17 witness: the element lacks data-src and src and has both data-cfsrc
\* and data-srcset: the value of data-cfsrc was returned
C17_Witness ==
    /\ call.fn = "extract_image"
    /\ call.tag.found
    /\ call.attribute = "data-src"
    /\ call.tag.attrs = {"data-cfsrc", "data-srcset"}
    /\ ret = Ret(Str("data-cfsrc"))

\* C18: in scrape_selected_sites, whichever sites raise, every site of the
\* list is attempted in the order of the list, each failing site is recorded
\* once in errors (and no other site is), and once the function returns the
\* aggregate holds every article handed back by the sites that did not raise.
C18_FailuresDoNotStopBatch ==
    /\ started = SubSeq(configs, 1, Len(started))
    /\ [i \in 1..Len(ended) |-> ended[i].name] = SubSeq(configs, 1, Len(ended))
    /\ LET failed == SelectSeq(ended, LAMBDA e : e.raised)
       IN  [i \in 1..Len(errors) |-> errors[i][1]] =
               [i \in 1..Len(failed) |-> failed[i].name]
    /\ run_pc \in {"returned", "done", "save_raised"} =>
          /\ Len(ended) = Len(configs)
          /\ returned \subseteq KeysOf(run_articles)

\* C18 witness: of two selected sites the first raised and the second handed
\* back articles; the function returned with them
C18_Witness ==
    /\ run_pc = "returned"
    /\ Len(configs) = 2
    /\ ended[1].raised
    /\ ~ended[2].raised
    /\ Len(errors) = 1
    /\ run_articles # {}

\* The two outcomes of main after scraping: save_results was called, 'No
\* articles to save' was printed.
SaveCalled == Len(saved) > 0
NothingToSave == reported > 0

\* At every moment: save_results is called at most once, with the aggregate,
\* which is then non-empty; the message is printed at most once, and then the
\* aggregate is empty; never both.
OutcomesExclusive ==
    /\ Len(saved) <= 1
    /\ reported <= 1
    /\ ~(SaveCalled /\ NothingToSave)
    /\ SaveCalled => (saved[1] = run_articles /\ run_articles # {})
    /\ NothingToSave => run_articles = {}

\* The run has ended: main has no step left to take.
RunEnded == ~ENABLED RunNext

\* A number every step of main increases, and a bound it never exceeds: every
\* run of main is finite.
RunMeasure ==
    2 * site_idx + CASE run_pc = "create_webdriver" -> 0
                     [] run_pc = "loop" -> 1
                     [] run_pc = "scraping" -> 2
                     [] run_pc = "returned" -> 2
                     [] OTHER -> 3
RunMeasureBound == 2 * Len(configs) + 5

\* C19 as stated: once sites are selected, every run of main ends in
\* exactly one of the two outcomes: save_results called once with the
\* non-empty aggregate, or 'No articles to save' printed for the empty one.
C19_EveryRunEndsInAnOutcome ==
    /\ OutcomesExclusive
    /\ RunEnded => (SaveCalled \/ NothingToSave)

\* C19 amended: every run of main in which the shared browser session was
\* started ends, and in exactly one of the two outcomes, whichever sites
\* raise.
C19_RunWithDriverEndsInAnOutcome ==
    /\ [](OutcomesExclusive /\ RunMeasure <= RunMeasureBound)
    /\ []((RunEnded /\ run_pc # "raised") => (SaveCalled \/ NothingToSave))
    /\ [][RunMeasure' > RunMeasure]_vars

\* C19 witness: a site raised, another handed back articles, and main has
\* called save_results once with them
C19_Witness ==
    /\ run_pc = "done"
    /\ errors # <<>>
    /\ Len(saved) = 1
    /\ saved[1] = run_articles
    /\ reported = 0

\* C20: site controllers run strictly one after another and the spreadsheet
\* is written after all of them: at any moment at most one scrape() has begun
\* and not ended, it is the one begun last, the sites before it in the list
\* have all ended; and save_results is invoked only when every selected site
\* has begun and ended.
C20_SitesSequentialSaveLast ==
    /\ Len(started) - Len(ended) \in {0, 1}
    /\ Len(started) > Len(ended) <=> run_pc = "scraping"
    /\ \A i \in 1..Len(ended) : started[i] = ended[i].name
    /\ started = SubSeq(configs, 1, Len(started))
    /\ SaveCalled => (Len(started) = Len(configs) /\ Len(ended) = Len(configs))

\* C20 witness: two sites were selected, both have begun and ended, and
\* save_results has been invoked
C20_Witness ==
    /\ Len(configs) = 2
    /\ Len(started) = 2
    /\ Len(ended) = 2
    /\ SaveCalled

\* C21: in Dragos, TrendMicro, TheRecord, Bitdefender, Presale1 and
\* IndustrialCyber the number of triggers requested after a reload
\* (load_more_count, load_more_clicks, page_count, next_count) never
\* decreases from one outer-loop iteration to the next.
C21_TriggerCountNeverDecreases ==
    [][iteration' = iteration + 1 => load_more_count' >= load_more_count]_vars

\* C21 witness: a controller is at the start of its third outer-loop
\* iteration, the listing expanded twice after the last reload
C21_Witness ==
    /\ pg_pc = "loop"
    /\ iteration = 2
    /\ expanded = 2
    /\ load_more_count > 1

\* C22: the paging loops of DragosScraper.scrape and
\* TrendMicroScraper.load_articles_until_min_date terminate for every finite
\* listing and every assignment of dates, also when the 'load more' button is
\* not found or clicking it fails: an iteration that does not leave the loop
\* makes all_articles longer, all_articles never gets longer than the listing
\* plus its featured article, and the loop is never stuck.
C22_LoadMoreLoopsTerminate ==
    /\ [](pg_site \in LoadMoreSites => Len(pg_articles) <= Len(listing) + 1)
    /\ []((pg_site \in LoadMoreSites /\ pg_pc = "loop") => ENABLED load_more_iteration)
    /\ [][(pg_site \in LoadMoreSites /\ pg_pc' = "loop") =>
              Len(pg_articles') > Len(pg_articles)]_vars

\* C22 witness: the loop has ended after several iterations, the button not
\* found as often as requested after the last reload
C22_Witness ==
    /\ pg_site \in LoadMoreSites
    /\ pg_pc = "done"
    /\ iteration >= 3
    /\ expanded < load_more_count - 1
    /\ pg_result # <<>>

\* What reading a cell back gives: a date cell gives the date of the
\* date-time it holds.
read_cell(cell) ==
    IF cell.value.t = "datetime" THEN Date(date_of(cell.value.n)) ELSE cell.value

C24_ValidityByCases ==
    date_call.fn = "is_article_valid" =>
        LET d == date_call.date_str
        IN  /\ d.t = "str" => date_ret.truthy
            /\ d.t = "None" => ~date_ret.truthy
            /\ (d.t = "date" /\ d.n < MIN_DATE) => ~date_ret.truthy
            /\ (d.t = "date" /\ d.n = MIN_DATE) => date_ret.truthy
            /\ (d.t = "date" /\ d.n > MIN_DATE) => date_ret.truthy

\* C24 witness: is_article_valid was called with the date min_date and
\* answered true
C24_Witness ==
    /\ date_call.fn = "is_article_valid"
    /\ date_call.date_str = Date(MIN_DATE)
    /\ date_ret.truthy

\* C25: in BitdefenderScraper.scrape and Presale1Scraper.scrape, at the
\* start of outer-loop iteration k the listing has been expanded exactly k
\* times since its last reload, and load_more_clicks equals k.
C25_ReplayClicksOnceMore ==
    (pg_site \in ClickReplaySites /\ pg_pc = "loop") =>
        (expanded = iteration /\ load_more_count = iteration)

\* C26: in TrendMicroScraper.load_articles_until_min_date every grid article
\* that was loaded on the listing and whose date passes validation was handed
\* to extract_article_details once and is in the returned list.
C26_NoValidGridArticleSkipped ==
    (pg_site = "TrendMicro" /\ pg_pc = "done") =>
        \A i \in 1..loaded :
            listing[i] = "valid" =>
                /\ Cardinality({k \in 1..Len(processed) : processed[k] = i}) = 1
                /\ \E k \in 1..Len(pg_result) : pg_result[k] = i

\* C27: in BleepingComputerScraper.scrape no article tagged 'Deals' is ever
\* in the list collected or returned, and a 'Deals' element whose date passes
\* validation is passed over without stopping: nothing is appended, the flag
\* stop_scraping stays clear, and the loop goes on with the next element of
\* the page.
C27_DealsSkippedNotStopping ==
    /\ [](site = "BleepingComputer" =>
            /\ \A i \in 1..Len(all_articles) : all_articles[i].tags # Str("Deals")
            /\ \A i \in 1..Len(result) : result[i].tags # Str("Deals"))
    /\ [][(/\ pc = "articles"
           /\ site = "BleepingComputer"
           /\ extracted' = extracted + 1
           /\ last_elem'.kind = "special"
           /\ last_elem'.date # "day0")
             => /\ pc' = IF pending > 1 THEN "articles" ELSE "end_page"
                /\ pending' = pending - 1
                /\ all_articles' = all_articles
                /\ ~stop_scraping']_vars

\* C27 witness: the first element of a page, a 'Deals' element with a valid
\* date, was passed over; the loop is at the next element of the page
C27_Witness ==
    /\ site = "BleepingComputer"
    /\ last_elem.kind = "special"
    /\ last_elem.date = "day1"
    /\ extracted = 1
    /\ pc = "articles"
    /\ pending >= 1
    /\ all_articles = <<>>
    /\ ~stop_scraping

\* C28: the configurations get_user_input returns are a duplicate-free
\* subset of the loaded ones: with a token '0' all of them, otherwise those
\* whose number is among the tokens, tokens that are no number or no number
\* of a configuration being ignored; (None, None) when that leaves none; and
\* the cutoff is the date typed, MIN_DATE when it cannot be parsed.
C28_SelectionIsValidSubset ==
    tool_call.fn = "get_user_input" =>
        LET cfgs == tool_call.configs
            tokens == {tool_call.selected_sites[i] : i \in 1..Len(tool_call.selected_sites)}
            wanted == IF "0" \in tokens THEN 1..Len(cfgs)
                      ELSE {i \in 1..Len(cfgs) :
                              \E t \in tokens : \/ (t \in {"1", " 1", "01"} /\ i = 1)
                                                \/ (t = "2" /\ i = 2)}
            got == tool_ret.selected_configs
        IN  /\ \A i, j \in 1..Len(got) : i # j => got[i] # got[j]
            /\ {got[i] : i \in 1..Len(got)} = {cfgs[i] : i \in wanted}
            /\ tool_ret.none <=> wanted = {}
            /\ ~tool_ret.none =>
                  tool_ret.min_date =
                      CASE tool_call.min_date_str = "day0" -> Date(0)
                        [] tool_call.min_date_str = "day2" -> Date(2)
                        [] OTHER -> Date(MIN_DATE)

\* The text of a url cell without its trailing slashes
WithoutSlashes(cell) == [cell EXCEPT !.slashes = 0]

\* C29: once trailing slashes are stripped from both url columns, every row
\* of new_links is in exactly one of removed_links and filtered_new_links,
\* in filtered_new_links exactly when its url is not among the old urls, and
\* no url of the saved sheet is among the old urls.
C29_RemovedAndFilteredPartition ==
    tool_call.fn = "duplicates" =>
        LET new_urls == tool_call.new_urls
            old == {WithoutSlashes(tool_call.old_urls[j]) : j \in 1..Len(tool_call.old_urls)}
            rows(links) == {links[i].row : i \in 1..Len(links)}
            removed == rows(tool_ret.removed_links)
            filtered == rows(tool_ret.filtered_new_links)
        IN  /\ removed \cup filtered = 1..Len(new_urls)
            /\ removed \cap filtered = {}
            /\ Len(tool_ret.removed_links) + Len(tool_ret.filtered_new_links) = Len(new_urls)
            /\ \A i \in 1..Len(new_urls) :
                  i \in filtered <=> WithoutSlashes(new_urls[i]) \notin old
            /\ \A i \in 1..Len(tool_ret.saved) : tool_ret.saved[i] \notin old
            /\ \A i \in 1..Len(tool_ret.filtered_new_links) :
                  tool_ret.filtered_new_links[i].url =
                      WithoutSlashes(new_urls[tool_ret.filtered_new_links[i].row])

\* C29 witness: a new url that differs from an old one by its trailing
\* slash only was removed and another new url was kept
C29_Witness ==
    /\ tool_call.fn = "duplicates"
    /\ tool_call.new_urls = <<Url("a", 1), Url("b", 0)>>
    /\ tool_call.old_urls = <<Url("a", 0)>>
    /\ Len(tool_ret.removed_links) = 1
    /\ tool_ret.saved = <<Url("b", 0)>>

\* The slide, shape, paragraph and run a run entry names exist
EntryExists(prs, e) ==
    /\ e.slide_number \in 1..Len(prs)
    /\ \E h \in 1..Len(prs[e.slide_number]) :
        LET shape == prs[e.slide_number][h]
        IN  /\ shape.shape_id = e.shape_id
            /\ shape.has_text_frame
            /\ e.paragraph_index \in 0..(Len(shape.paragraphs) - 1)
            /\ e.run_index \in 0..(Len(shape.paragraphs[e.paragraph_index + 1]) - 1)

\* C30: insert_translated_text_runs leaves a run's text alone when its
\* translated_text is still the placeholder and skips, without raising,
\* entries naming a slide, shape, paragraph or run that does not exist; so
\* when every entry is of one of these two kinds (as directly after
\* extract_text_runs_to_json) the presentation saved has the text of every
\* run as it was.
C30_PlaceholderAndMissingEntriesLeaveTextAlone ==
    tool_call.fn = "insert_translated_text_runs" =>
        LET data == tool_call.data
        IN  (\A i \in 1..Len(data) :
                \/ data[i].translated_text = Str("[Translated text here]")
                \/ ~EntryExists(tool_call.prs, data[i]))
            => /\ tool_ret.exc = ""
               /\ tool_ret.saved
               /\ tool_ret.prs = tool_call.prs

SpecHelpersInit == HelpersIdle /\ RunIdle /\ ScrapeIdle /\ DatesIdle /\ PagingIdle /\ ToolsIdle
SpecHelpers == SpecHelpersInit /\ [][HelpersNext]_vars

SpecRunInit == RunInit /\ HelpersIdle /\ ScrapeIdle /\ DatesIdle /\ PagingIdle /\ ToolsIdle
SpecRun == SpecRunInit /\ [][RunNext]_vars

SpecScrapeInit == ScrapeInit /\ HelpersIdle /\ RunIdle /\ DatesIdle /\ PagingIdle /\ ToolsIdle
SpecScrape == SpecScrapeInit /\ [][ScrapeNext]_vars

SpecDatesInit == DatesIdle /\ HelpersIdle /\ RunIdle /\ ScrapeIdle /\ PagingIdle /\ ToolsIdle
SpecDates == SpecDatesInit /\ [][DatesNext]_vars

SpecToolsInit ==
    ToolsIdle /\ HelpersIdle /\ RunIdle /\ ScrapeIdle /\ DatesIdle /\ PagingIdle
SpecTools == SpecToolsInit /\ [][ToolsNext]_vars

SpecPagingInit ==
    PagingInit /\ HelpersIdle /\ RunIdle /\ ScrapeIdle /\ DatesIdle /\ ToolsIdle
SpecPaging == SpecPagingInit /\ [][PagingNext]_vars

====
